---- MODULE Spec2Model ----
(***************************************************************************)
(* Version resolution of browser-manager.                                  *)
(*                                                                         *)
(* Part 1 (LocateSpec): Chromium build location, the linear variant of     *)
(* fetchChromiumBuildNumber followed by findNearestAvailableBuild          *)
(* (src/browser-configs/chromium-config.ts, lines 23-148).                 *)
(* Part 2 (CacheSpec): the per-resolver latest-version cache,              *)
(* BaseBrowserConfig.getCachedVersion (src/browser-base-config.ts).        *)
(*                                                                         *)
(* A string that the code splits is represented by the sequence of its     *)
(* parts: a version string by its '.'-separated segments, a URL by its     *)
(* '/'-separated parts, a decimal numeral by its characters.  Two strings  *)
(* are equal exactly when their representations are.                       *)
(***************************************************************************)
EXTENDS Integers, Sequences, FiniteSets, TLC

VARIABLES
    \* ---- the remote services (environment) ----
    feed,          \* the release catalog, newest first: runs of equal entries
    artifacts,     \* build positions whose snapshot exists in the bucket
    \* ---- one call of fetchChromiumBuildNumber(version, platform, arch) ----
    platform,      \* the `platform` argument of the current frame
    arch,          \* the `arch` argument of the current frame, "" for undefined
    version,       \* the requested version string, <<>> for undefined
    pc,            \* "call" | "recent" | "scan" | "probe" | "done" | "failed"
    offset,        \* local `offset` of the paginated search
    offsetLow,     \* locals of the variant that binary-searches the offsets
    offsetHigh,
    fetched,       \* feed requests issued so far: <<[offset, ok]>>
    buildNumber,   \* argument of findNearestAvailableBuild (a numeral), or <<>>
    attempt,       \* loop variable i of findNearestAvailableBuild
    urlIndex,      \* index into testUrls of the inner loop (1 = up, 2 = down)
    probes,        \* HEAD requests issued so far: <<[url, ok]>>
    closestBuild,  \* the returned build (a numeral), or <<>>
    error,         \* the message of the thrown Error, or "none"
    downloadUrl,   \* the URL the resolver returned (its parts), or <<>>
    \* ---- one resolver instance and its getLatestVersion callers ----
    versionCache,  \* BaseBrowserConfig.versionCache: key -> entry or NoEntry
    clock,         \* Date.now()
    calls,         \* the getCachedVersion invocations, by call id
    lastWriter,    \* key -> the call whose fetch was the last to succeed for it
    \* ---- one call of a function that keeps no state of its own ----
    request,       \* the function called and its arguments
    response,      \* what the call returned or threw, <<>> while it is pending
    \* ---- Chrome's curated version table ----
    versionsData,  \* the JSON served at VERSIONS_URL: <<[version, urls]>>
    versionsCache, \* module variable versionsCache: <<>> or <<the table>>
    tableReads,    \* network reads of VERSIONS_URL issued so far
    \* ---- one run of the command-line program ----
    argv,          \* Deno.args
    env,           \* the environment variables that are set as the logger tests them
    isDebugMode,   \* logger.ts: const isDebugMode
    isTestEnv,     \* logger.ts: const isTestEnv
    logged,        \* every logger call of the run: <<[level, text]>>
    console,       \* the logger calls that reached the console
    exitCode,      \* the status the process ended with
    cliPc,         \* "none" | "load" | "main" | "command" | "exited"
    \* ---- the file system install, remove and the history work on ----
    fs,            \* the directories and files that exist, as paths
    infoFiles,     \* install path -> the records of its .installation-info
    lastOp,        \* the call completed last: [op, browser, params, threw, result]
    opCount        \* the calls completed so far

locateVars == <<feed, artifacts, platform, arch, version, pc, offset,
                offsetLow, offsetHigh, fetched, buildNumber, attempt, urlIndex, probes, closestBuild, error,
                downloadUrl>>
cacheVars == <<versionCache, clock, calls, lastWriter>>
callVars == <<request, response>>
chromeVars == <<versionsData, versionsCache, tableReads>>
cliVars == <<argv, env, isDebugMode, isTestEnv, logged, console, exitCode,
             cliPc>>
fsVars == <<fs, infoFiles, lastOp, opCount>>
hostVars == <<cliVars, fsVars>>
vars == <<locateVars, cacheVars, callVars, chromeVars, hostVars>>

Min(S) == CHOOSE x \in S : \A y \in S : x <= y
Max(S) == CHOOSE x \in S : \A y \in S : x >= y
Abs(x) == IF x < 0 THEN -x ELSE x

(***************************************************************************)
(* Program constants.                                                      *)
(***************************************************************************)
numResults == 50
maxOffset == 1000
maxAttempts == 5

(***************************************************************************)
(* Bounds of the model.                                                    *)
(***************************************************************************)
MaxRuns == 2          \* runs of equal entries in a feed
MaxArtifacts == 2     \* snapshots published near the reported position

(***************************************************************************)
(* compareVersions: v.split('.').map(Number), then `parts[i] || 0`.        *)
(***************************************************************************)
NaN == [nan |-> TRUE, val |-> 0]
Num(n) == [nan |-> FALSE, val |-> n]

\* Number(segment) on the segments that occur in the model.
Number(s) ==
    CASE s = "" -> Num(0)
      [] s = "0" -> Num(0)
      [] s = "1" -> Num(1)
      [] s = "2" -> Num(2)
      [] s = "9" -> Num(9)
      [] s = "10" -> Num(10)
      [] s = "01" -> Num(1)
      [] s = "87" -> Num(87)
      [] s = "88" -> Num(88)
      [] s = "90" -> Num(90)
      [] s = "109" -> Num(109)
      [] s = "120" -> Num(120)
      [] s = "150" -> Num(150)
      [] s = "4324" -> Num(4324)
      [] s = "6099" -> Num(6099)
      [] OTHER -> NaN

\* a reading that counts a non-numeric segment as 1
PartOrOne(parts, i) ==
    IF i > Len(parts) THEN 0
    ELSE LET n == Number(parts[i]) IN IF n.nan THEN 1 ELSE n.val

\* parts[i] || 0 : undefined, NaN and 0 are falsy.
PartOrZero(parts, i) ==
    IF i > Len(parts) THEN 0
    ELSE LET n == Number(parts[i]) IN IF n.nan THEN 0 ELSE n.val

\* a comparison that stops at the end of the shorter operand
compareVersionsShorter(v1, v2) ==
    LET n == Min({Len(v1), Len(v2)})
        differ == {i \in 1..n : PartOrZero(v1, i) # PartOrZero(v2, i)}
    IN IF differ = {} THEN 0
       ELSE PartOrZero(v1, Min(differ)) - PartOrZero(v2, Min(differ))

compareVersions(v1, v2) ==
    LET parts1 == v1
        parts2 == v2
        n == Max({Len(parts1), Len(parts2)})
        differ == {i \in 1..n : PartOrZero(parts1, i) # PartOrZero(parts2, i)}
    IN IF differ = {} THEN 0
       ELSE PartOrZero(parts1, Min(differ)) - PartOrZero(parts2, Min(differ))

(***************************************************************************)
(* Numerals: Number.prototype.toString and Number.parseInt(s, 10).         *)
(***************************************************************************)
DigitChars == <<"0", "1", "2", "3", "4", "5", "6", "7", "8", "9">>

RECURSIVE ToDigits(_)
ToDigits(n) ==
    IF n < 10 THEN <<DigitChars[n + 1]>>
    ELSE Append(ToDigits(n \div 10), DigitChars[(n % 10) + 1])

toString(n) == IF n < 0 THEN <<"-">> \o ToDigits(-n) ELSE ToDigits(n)

DigitValue(c) == (CHOOSE d \in 1..10 : DigitChars[d] = c) - 1

RECURSIVE DigitsValue(_)
DigitsValue(s) ==
    IF s = <<>> THEN 0
    ELSE 10 * DigitsValue(SubSeq(s, 1, Len(s) - 1)) + DigitValue(s[Len(s)])

parseInt(s) == IF s[1] = "-" THEN -DigitsValue(Tail(s)) ELSE DigitsValue(s)

(***************************************************************************)
(* The release feed.  feed is a sequence of runs [version, position,       *)
(* count]: `count` consecutive entries {version, chromium_main_branch_     *)
(* position}.  The service answers a request for `offset` with the entries *)
(* offset .. offset+num-1 of the list (0-based), fewer at its end.         *)
(***************************************************************************)
RECURSIVE EntriesBefore(_, _)
EntriesBefore(runs, j) ==
    IF j = 0 THEN 0 ELSE EntriesBefore(runs, j - 1) + runs[j].count

FeedLen == EntriesBefore(feed, Len(feed))

EntryAt(k) ==
    LET j == CHOOSE j \in 1..Len(feed) :
                 EntriesBefore(feed, j - 1) <= k /\ k < EntriesBefore(feed, j)
    IN [version |-> feed[j].version,
        chromium_main_branch_position |-> feed[j].position]

FeedPage(off, num) ==
    LET n == IF off >= FeedLen THEN 0 ELSE Min({num, FeedLen - off})
    IN [i \in 1..n |-> EntryAt(off + i - 1)]

FeedUnavailable == "Failed to fetch releases"
VersionNotFound == "No build found for version"
NoArtifactNearPosition == "No valid build found near"

\* a fetchReleases that reads a refused response as an empty page
fetchReleasesSwallow(off, ok) ==
    [threw |-> FALSE, releases |-> IF ok THEN FeedPage(off, numResults) ELSE <<>>]

\* fetchReleases(offset): throws when the response is not ok.
fetchReleases(off, ok) ==
    IF ~ok THEN [threw |-> TRUE, releases |-> <<>>]
    ELSE [threw |-> FALSE, releases |-> FeedPage(off, numResults)]

\* releases.find(release => release.version === version), 0 for undefined.
find(releases, v) ==
    LET hits == {i \in DOMAIN releases : releases[i].version = v}
    IN IF hits = {} THEN 0 ELSE Min(hits)

\* an overshoot test that also stops at an entry comparing equal
goneTooFarInclusive(releases, v) ==
    compareVersions(releases[Len(releases)].version, v) <= 0

\* compareVersions(oldestInBatch.version, version) < 0
goneTooFar(releases, v) ==
    compareVersions(releases[Len(releases)].version, v) < 0

(***************************************************************************)
(* findNearestAvailableBuild.                                              *)
(***************************************************************************)
SnapshotParts == <<"https:", "", "commondatastorage.googleapis.com",
                   "chromium-browser-snapshots">>

getChromiumPlatform(p, a) ==
    IF p = "linux" THEN "Linux_" \o a
    ELSE IF p = "windows" THEN "Win" ELSE "Mac"

\* chrome-${platform === 'windows' ? 'win' : platform}.zip
archiveName(p) ==
    CASE p = "windows" -> "chrome-win.zip"
      [] p = "mac" -> "chrome-mac.zip"
      [] p = "linux" -> "chrome-linux.zip"

\* the URL of a build, as its '/'-separated parts
testUrl(build) ==
    SnapshotParts \o <<getChromiumPlatform(platform, arch), build,
                       archiveName(platform)>>

\* resolver templates whose linux storage key is always Linux_x64
downloadUrlResolverX64(p, a, build) ==
    SnapshotParts \o
    CASE p = "windows" -> <<"Win", build, "chrome-win.zip">>
      [] p = "mac" -> <<"Mac", build, "chrome-mac.zip">>
      [] p = "linux" -> <<"Linux_x64", build, "chrome-linux.zip">>

\* the three downloadUrlResolver templates of ChromiumConfig
downloadUrlResolver(p, a, build) ==
    SnapshotParts \o
    CASE p = "windows" -> <<"Win", build, "chrome-win.zip">>
      [] p = "mac" -> <<"Mac", build, "chrome-mac.zip">>
      [] p = "linux" -> <<IF a = "arm64" THEN "Linux_arm64" ELSE "Linux_x64",
                          build, "chrome-linux.zip">>

\* a sweep that tests the lower candidate first
testUrlsDownFirst(currentBuild, i) ==
    <<testUrl(toString(currentBuild - i)), testUrl(toString(currentBuild + i))>>

\* the wide sweep, in steps of 100
testUrlsStride(currentBuild, i) ==
    <<testUrl(toString(currentBuild + (i * 100))),
      testUrl(toString(currentBuild - (i * 100)))>>

\* [testBuildUp, testBuildDown].map(url) for attempt i
testUrls(currentBuild, i) ==
    <<testUrl(toString(currentBuild + i)), testUrl(toString(currentBuild - i))>>

\* testUrl.split('/').slice(-2, -1)[0]
buildOf(url) == url[Len(url) - 1]

\* a loop that runs one attempt too many
moreAttemptsInclusive(i) == i <= maxAttempts

\* the for-loop condition i < maxAttempts
moreAttempts(i) == i < maxAttempts

\* the bucket answers HEAD with 200 exactly for the snapshots it holds
headOk(url) == parseInt(buildOf(url)) \in artifacts

(***************************************************************************)
(* Inputs.                                                                 *)
(***************************************************************************)
V_1_9 == <<"1", "9">>
V_1_10 == <<"1", "10">>
V_1_10_0 == <<"1", "10", "0">>
V_2_0 == <<"2", "0">>
FeedVersions == {V_1_9, V_1_10, V_1_10_0, V_2_0}
Requested == {V_1_10}

BasePosition == 1000000
\* build positions grow with time: the i-th run of a newest-first feed
RunPosition(i) == BasePosition - (i - 1)
RunCounts == {1, numResults, maxOffset - 1}

Feeds ==
    UNION {
        {[i \in 1..n |-> [version |-> vs[i], position |-> RunPosition(i),
                          count |-> cs[i]]] :
            vs \in [1..n -> FeedVersions], cs \in [1..n -> RunCounts]} :
        n \in 0..MaxRuns}

\* The bucket is read by the sweep alone, and its answers do not change while
\* the sweep runs: its content near the reported position p, at most
\* MaxArtifacts snapshots, is drawn when the sweep starts.
Stores(p) ==
    {S \in SUBSET ((p - maxAttempts)..(p + maxAttempts)) :
        Cardinality(S) <= MaxArtifacts}

(***************************************************************************)
(* fetchChromiumBuildNumber, one action per awaited response.              *)
(***************************************************************************)
LocateInit ==
    /\ feed \in Feeds
    /\ artifacts = {}
    /\ platform = "linux"
    /\ arch = "x64"
    /\ version \in Requested
    /\ pc = "recent"
    /\ offset = 0
    /\ offsetLow = 0
    /\ offsetHigh = 0
    /\ fetched = <<>>
    /\ buildNumber = <<>>
    /\ attempt = 0
    /\ urlIndex = 1
    /\ probes = <<>>
    /\ closestBuild = <<>>
    /\ error = "none"
    /\ downloadUrl = <<>>

Throw(message) ==
    /\ pc' = "failed"
    /\ error' = message

\* return findNearestAvailableBuild(platform, arch, position.toString())
CallFindNearest(release) ==
    /\ pc' = "probe"
    /\ artifacts' \in Stores(release.chromium_main_branch_position)
    /\ buildNumber' = toString(release.chromium_main_branch_position)
    /\ attempt' = 0
    /\ urlIndex' = 1
    /\ error' = error

\* const recentReleases = await fetchReleases(0) ... let offset = 0
FetchRecent ==
    /\ pc = "recent"
    /\ \E ok \in BOOLEAN :
        LET r == fetchReleases(0, ok)
            recentMatch == find(r.releases, version)
        IN /\ fetched' = Append(fetched, [offset |-> 0, ok |-> ok])
           /\ IF r.threw
                 THEN Throw(FeedUnavailable)
                      /\ UNCHANGED <<offset, artifacts, buildNumber, attempt, urlIndex>>
              ELSE IF recentMatch # 0
                 THEN CallFindNearest(r.releases[recentMatch])
                      /\ UNCHANGED offset
              ELSE /\ pc' = "scan"
                   /\ offset' = 0
                   /\ UNCHANGED <<artifacts, buildNumber, attempt, urlIndex, error>>
    /\ UNCHANGED <<feed, platform, arch, version, offsetLow, offsetHigh,
                   probes, closestBuild, downloadUrl>>
    /\ UNCHANGED <<cacheVars, callVars, chromeVars, hostVars>>

\* one iteration of while (offset < maxOffset), up to the next await or throw
ScanPage ==
    /\ pc = "scan"
    /\ \E ok \in BOOLEAN :
        LET r == fetchReleases(offset, ok)
            releases == r.releases
            match == find(releases, version)
        IN /\ fetched' = Append(fetched, [offset |-> offset, ok |-> ok])
           /\ IF r.threw
                 THEN Throw(FeedUnavailable)
                      /\ UNCHANGED <<offset, artifacts, buildNumber, attempt, urlIndex>>
              ELSE IF Len(releases) = 0
                 THEN Throw(VersionNotFound)
                      /\ UNCHANGED <<offset, artifacts, buildNumber, attempt, urlIndex>>
              ELSE IF match # 0
                 THEN CallFindNearest(releases[match])
                      /\ UNCHANGED offset
              ELSE IF goneTooFar(releases, version)
                 THEN Throw(VersionNotFound)
                      /\ UNCHANGED <<offset, artifacts, buildNumber, attempt, urlIndex>>
              ELSE /\ offset' = offset + numResults
                   /\ IF offset' < maxOffset
                        THEN pc' = "scan" /\ error' = error
                        ELSE Throw(VersionNotFound)
                   /\ UNCHANGED <<artifacts, buildNumber, attempt, urlIndex>>
    /\ UNCHANGED <<feed, platform, arch, version, offsetLow, offsetHigh,
                   probes, closestBuild, downloadUrl>>
    /\ UNCHANGED <<cacheVars, callVars, chromeVars, hostVars>>

\* const response = await fetch(testUrl, { method: 'HEAD' }), then the loops
Probe ==
    /\ pc = "probe"
    /\ LET currentBuild == parseInt(buildNumber)
           url == testUrls(currentBuild, attempt)[urlIndex]
           ok == headOk(url)
       IN /\ probes' = Append(probes, [url |-> url, ok |-> ok])
          /\ IF ok
                THEN /\ closestBuild' = buildOf(url)
                     /\ downloadUrl' = downloadUrlResolver(platform, arch,
                                                           closestBuild')
                     /\ pc' = "done"
                     /\ UNCHANGED <<attempt, urlIndex, error>>
             ELSE IF urlIndex = 1
                THEN /\ urlIndex' = 2
                     /\ UNCHANGED <<attempt, pc, closestBuild, error,
                                    downloadUrl>>
             ELSE /\ attempt' = attempt + 1
                  /\ urlIndex' = 1
                  /\ UNCHANGED <<closestBuild, downloadUrl>>
                  /\ IF moreAttempts(attempt')
                       THEN pc' = pc /\ error' = error
                       ELSE Throw(NoArtifactNearPosition)
    /\ UNCHANGED <<feed, artifacts, platform, arch, version, offset,
                   offsetLow, offsetHigh, fetched, buildNumber>>
    /\ UNCHANGED <<cacheVars, callVars, chromeVars, hostVars>>

LocateNext == FetchRecent \/ ScanPage \/ Probe

(***************************************************************************)
(* The variant of fetchChromiumBuildNumber that binary-searches the        *)
(* offsets and then scans forward (chromium-config.ts, lines 194-271).  It *)
(* compares version strings with the relational operators of JavaScript,   *)
(* which order strings by their UTF-16 code units.                         *)
(***************************************************************************)
initialOffsetHigh == 450

\* the characters of a segment that occurs in the model
segmentChars(seg) ==
    CASE seg = "" -> <<>>
      [] seg = "10" -> <<"1", "0">>
      [] seg = "01" -> <<"0", "1">>
      [] OTHER -> <<seg>>

\* the characters of the version string: its segments joined by '.'
RECURSIVE versionChars(_)
versionChars(v) ==
    IF Len(v) = 0 THEN <<>>
    ELSE IF Len(v) = 1 THEN segmentChars(v[1])
    ELSE segmentChars(v[1]) \o <<".">> \o versionChars(Tail(v))

\* String.prototype.charCodeAt
charCode(c) ==
    CASE c = "." -> 46
      [] c = "x" -> 120
      [] OTHER -> 48 + DigitValue(c)

\* a < b on strings: at the first difference the smaller code unit decides,
\* a proper prefix is smaller
RECURSIVE charsLess(_, _)
charsLess(a, b) ==
    IF b = <<>> THEN FALSE
    ELSE IF a = <<>> THEN TRUE
    ELSE IF charCode(a[1]) # charCode(b[1]) THEN charCode(a[1]) < charCode(b[1])
    ELSE charsLess(Tail(a), Tail(b))

stringLess(v1, v2) == charsLess(versionChars(v1), versionChars(v2))

\* one iteration of while (offsetLow < offsetHigh)
SearchOffsets ==
    /\ pc = "bsearch"
    /\ \E ok \in BOOLEAN :
        LET midOffset == (offsetLow + offsetHigh) \div 2
            r == fetchReleases(midOffset, ok)
            data == r.releases
            newestVersion == data[1].version
            oldestVersion == data[Len(data)].version
            found == /\ Len(data) # 0
                     /\ ~stringLess(newestVersion, version)
                     /\ ~stringLess(version, oldestVersion)
        IN /\ fetched' = Append(fetched, [offset |-> midOffset, ok |-> ok])
           /\ IF r.threw
                 THEN Throw(FeedUnavailable)
                      /\ UNCHANGED <<offset, offsetLow, offsetHigh>>
              ELSE /\ offsetHigh' =
                        IF Len(data) = 0 \/ stringLess(newestVersion, version)
                        THEN midOffset ELSE offsetHigh
                   /\ offsetLow' =
                        IF Len(data) = 0 \/ stringLess(newestVersion, version)
                        THEN offsetLow
                        ELSE IF stringLess(version, oldestVersion)
                        THEN midOffset + numResults
                        ELSE midOffset
                   /\ IF found \/ ~(offsetLow' < offsetHigh')
                        THEN pc' = "bscan" /\ offset' = offsetLow'
                        ELSE pc' = pc /\ offset' = offset
                   /\ error' = error
    /\ UNCHANGED <<feed, artifacts, platform, arch, version, buildNumber,
                   attempt, urlIndex, probes, closestBuild, downloadUrl>>
    /\ UNCHANGED <<cacheVars, callVars, chromeVars, hostVars>>

\* one iteration of for (let offset = offsetLow; ; offset += numResults)
ScanForward ==
    /\ pc = "bscan"
    /\ \E ok \in BOOLEAN :
        LET r == fetchReleases(offset, ok)
            data == r.releases
            match == find(data, version)
        IN /\ fetched' = Append(fetched, [offset |-> offset, ok |-> ok])
           /\ IF r.threw
                 THEN Throw(FeedUnavailable)
                      /\ UNCHANGED <<offset, artifacts, buildNumber, attempt, urlIndex>>
              ELSE IF Len(data) = 0
                 THEN Throw(VersionNotFound)
                      /\ UNCHANGED <<offset, artifacts, buildNumber, attempt, urlIndex>>
              ELSE IF match # 0
                 THEN CallFindNearest(data[match])
                      /\ UNCHANGED offset
              ELSE /\ offset' = offset + numResults
                   /\ UNCHANGED <<pc, error, artifacts, buildNumber, attempt,
                                  urlIndex>>
    /\ UNCHANGED <<feed, platform, arch, version, offsetLow, offsetHigh,
                   probes, closestBuild, downloadUrl>>
    /\ UNCHANGED <<cacheVars, callVars, chromeVars, hostVars>>

\* fetchChromiumBuildNumber(version, 'linux', 'x64'): both checks pass
BinaryInit ==
    /\ feed \in Feeds
    /\ artifacts = {}
    /\ platform = "linux"
    /\ arch = "x64"
    /\ version \in Requested
    /\ pc = "bsearch"
    /\ offset = 0
    /\ offsetLow = 0
    /\ offsetHigh = initialOffsetHigh
    /\ fetched = <<>>
    /\ buildNumber = <<>>
    /\ attempt = 0
    /\ urlIndex = 1
    /\ probes = <<>>
    /\ closestBuild = <<>>
    /\ error = "none"
    /\ downloadUrl = <<>>

BinaryNext == SearchOffsets \/ ScanForward \/ Probe

(***************************************************************************)
(* ChromiumConfig: BaseBrowserConfig.getDownloadUrl validates the platform *)
(* and the architecture and hands over to the platform's                   *)
(* downloadUrlResolver, which awaits fetchChromiumBuildNumber and puts the *)
(* build into the snapshot URL.                                            *)
(***************************************************************************)
UnsupportedPlatform == "Unsupported platform for"
UnsupportedArch == "Unsupported architecture"
NoDownloadConfiguration == "No download configuration for"

\* String.prototype.toLowerCase on the identifiers that occur in the model
toLowerCase(s) ==
    CASE s = "Linux" -> "linux"
      [] s = "ARM64" -> "arm64"
      [] OTHER -> s

\* ({ macos: 'mac', darwin: 'mac', win: 'windows' })[normalized] ?? normalized
normalizePlatform(p) ==
    LET normalized == toLowerCase(p)
    IN CASE normalized \in {"macos", "darwin"} -> "mac"
         [] normalized = "win" -> "windows"
         [] OTHER -> normalized

\* the `arch` lists of the platforms record of ChromiumConfig
ChromiumPlatforms ==
    [windows |-> {"x64", "arm64"}, mac |-> {"x64", "arm64"},
     linux |-> {"x64", "arm64"}]

\* a string argument that is neither undefined nor ''
Truthy(s) == s # ""
\* the same for a version, which the model holds as its segments
TruthyVersion(v) == v # <<>> /\ v # <<"">>

\* const config = this.platforms[platform]; if (!config) throw
validPlatform(p) == p \in DOMAIN ChromiumPlatforms

\* getDownloadUrl({ platform, version, arch }) up to the resolver's first await
getDownloadUrl ==
    /\ pc = "call"
    /\ LET normalizedPlatform == normalizePlatform(platform)
           normalizedArch == toLowerCase(arch)
       IN /\ platform' = normalizedPlatform
          /\ arch' = normalizedArch
          /\ IF ~validPlatform(normalizedPlatform)
                THEN Throw(UnsupportedPlatform)
             ELSE IF /\ Truthy(normalizedArch)
                     /\ normalizedArch \notin ChromiumPlatforms[normalizedPlatform]
                THEN Throw(UnsupportedArch)
             ELSE IF TruthyVersion(version) /\ Truthy(normalizedArch)
                THEN pc' = "recent" /\ error' = error
             ELSE Throw(NoDownloadConfiguration)
    /\ UNCHANGED <<feed, artifacts, version, offset, offsetLow, offsetHigh,
                   fetched, buildNumber, attempt, urlIndex, probes,
                   closestBuild, downloadUrl>>
    /\ UNCHANGED <<cacheVars, callVars, chromeVars, hostVars>>

\* the arguments of a resolution call
PlatformArgs == {"Linux", "macos", "win", "freebsd"}
ArchArgs == {"ARM64", "x64", "x86", ""}
VersionArgs == {V_1_10, <<>>}

ResolveInit ==
    /\ feed \in Feeds
    /\ artifacts = {}
    /\ platform \in PlatformArgs
    /\ arch \in ArchArgs
    /\ version \in VersionArgs
    /\ pc = "call"
    /\ offset = 0
    /\ offsetLow = 0
    /\ offsetHigh = 0
    /\ fetched = <<>>
    /\ buildNumber = <<>>
    /\ attempt = 0
    /\ urlIndex = 1
    /\ probes = <<>>
    /\ closestBuild = <<>>
    /\ error = "none"
    /\ downloadUrl = <<>>

ResolveNext == getDownloadUrl \/ FetchRecent \/ ScanPage \/ Probe

(***************************************************************************)
(* BaseBrowserConfig.getCachedVersion.  Each getLatestVersion override     *)
(* calls getCachedVersion(`${platform}-${arch}`, fetcher); the fetcher is  *)
(* the only await of the call, so a call is two steps: the synchronous     *)
(* part up to `await fetcher()`, and the continuation after it settles.    *)
(* Callers overlap freely; time passes between any two steps.              *)
(***************************************************************************)
CACHE_TTL == 1000 * 60 * 60

MaxCalls == 3         \* getLatestVersion calls in one behaviour
MaxTicks == 2         \* advances of the clock in one behaviour

CallIds == 1..MaxCalls
CacheKeys == {"mac-arm64", "linux-x64"}
\* what the upstream source reports as latest: a release is published one
\* TTL after the start
UpstreamLatest(t) == IF t < CACHE_TTL THEN "120.0.6099.109" ELSE "121.0.6167.85"
\* the clock advances by a millisecond or by just under the TTL
TickSteps == {1, CACHE_TTL - 1}
TicksSoFar == (clock \div (CACHE_TTL - 1)) + (clock % (CACHE_TTL - 1))

\* pc: "idle" (not yet called) | "fetching" (awaiting the fetcher) |
\*     "hit" (returned the cached version) | "stored" (returned the fetched
\*     version) | "threw"
IdleCall == [pc |-> "idle", key |-> "", now |-> 0, cached |-> <<>>,
             seen |-> 0, result |-> ""]

\* fetcher invocations that have settled
Settled == Cardinality({c \in CallIds : calls[c].pc \in {"stored", "threw"}})
\* fetcher invocations so far
Upstream == Cardinality({c \in CallIds : calls[c].pc \in {"fetching", "stored", "threw"}})

CacheInit ==
    /\ versionCache = <<>>
    /\ clock = 0
    /\ calls = [c \in CallIds |-> IdleCall]
    /\ lastWriter = <<>>

\* this.versionCache.get(cacheKey), <<>> for undefined
cacheGet(cache, k) == IF k \in DOMAIN cache THEN <<cache[k]>> ELSE <<>>

\* a set that keeps the entry with the later timestamp
cacheSetNewest(cache, k, v, now) ==
    IF k \in DOMAIN cache /\ cache[k].timestamp > now THEN cache
    ELSE [x \in DOMAIN cache \cup {k} |->
            IF x = k THEN [version |-> v, timestamp |-> now] ELSE cache[x]]

\* this.versionCache.set(cacheKey, { version, timestamp: now })
cacheSet(cache, k, v, now) ==
    [x \in DOMAIN cache \cup {k} |->
        IF x = k THEN [version |-> v, timestamp |-> now] ELSE cache[x]]

\* a TTL test that still serves an entry exactly one TTL old
isFreshInclusive(cached, now) ==
    cached # <<>> /\ now - cached[1].timestamp <= CACHE_TTL

\* cached && now - cached.timestamp < this.CACHE_TTL
isFresh(cached, now) ==
    cached # <<>> /\ now - cached[1].timestamp < CACHE_TTL

\* a catch block that caches the failure
catchBlockPoison(cache, k, now) ==
    [x \in DOMAIN cache \cup {k} |->
        IF x = k THEN [version |-> "", timestamp |-> now] ELSE cache[x]]

\* a catch block that drops the entry of the key
catchBlockDelete(cache, k, now) ==
    [x \in DOMAIN cache \ {k} |-> cache[x]]

\* catch (error) { logger.error(...); throw error }
catchBlock(cache, k, now) == cache

\* the synchronous part: now, cached, the TTL test, and fetcher() is invoked
getCachedVersion(c, k) ==
    /\ calls[c].pc = "idle"
    /\ \A d \in CallIds : d < c => calls[d].pc # "idle"
    /\ LET now == clock
           cached == cacheGet(versionCache, k)
           call == [IdleCall EXCEPT !.key = k, !.now = now, !.cached = cached,
                                    !.seen = Settled]
       IN calls' = [calls EXCEPT ![c] =
                       IF isFresh(cached, now)
                       THEN [call EXCEPT !.pc = "hit",
                                         !.result = cached[1].version]
                       ELSE [call EXCEPT !.pc = "fetching"]]
    /\ UNCHANGED <<versionCache, clock, lastWriter>>
    /\ UNCHANGED <<locateVars, callVars, chromeVars, hostVars>>

\* a continuation that stamps the entry with the time the fetch settled
FetcherResolvesLate(c) ==
    /\ calls[c].pc = "fetching"
    /\ LET v == UpstreamLatest(clock) IN
       /\ versionCache' = cacheSet(versionCache, calls[c].key, v, clock)
       /\ calls' = [calls EXCEPT ![c].pc = "stored", ![c].result = v]
    /\ lastWriter' = [x \in DOMAIN lastWriter \cup {calls[c].key} |->
                         IF x = calls[c].key THEN c ELSE lastWriter[x]]
    /\ UNCHANGED clock
    /\ UNCHANGED <<locateVars, callVars, chromeVars, hostVars>>

\* const version = await fetcher() resolved; set, return version
FetcherResolves(c) ==
    /\ calls[c].pc = "fetching"
    /\ LET v == UpstreamLatest(clock) IN
       /\ versionCache' = cacheSet(versionCache, calls[c].key, v, calls[c].now)
       /\ calls' = [calls EXCEPT ![c].pc = "stored", ![c].result = v]
    /\ lastWriter' = [x \in DOMAIN lastWriter \cup {calls[c].key} |->
                         IF x = calls[c].key THEN c ELSE lastWriter[x]]
    /\ UNCHANGED clock
    /\ UNCHANGED <<locateVars, callVars, chromeVars, hostVars>>

\* await fetcher() rejected; the catch block rethrows
FetcherRejects(c) ==
    /\ calls[c].pc = "fetching"
    /\ versionCache' = catchBlock(versionCache, calls[c].key, calls[c].now)
    /\ calls' = [calls EXCEPT ![c].pc = "threw"]
    /\ UNCHANGED <<clock, lastWriter>>
    /\ UNCHANGED <<locateVars, callVars, chromeVars, hostVars>>

Tick(d) ==
    /\ TicksSoFar < MaxTicks
    /\ clock' = clock + d
    /\ UNCHANGED <<versionCache, calls, lastWriter>>
    /\ UNCHANGED <<locateVars, callVars, chromeVars, hostVars>>

CacheNext ==
    \/ \E c \in CallIds, k \in CacheKeys : getCachedVersion(c, k)
    \/ \E c \in CallIds : FetcherResolves(c)
    \/ \E c \in CallIds : FetcherRejects(c)
    \/ \E d \in TickSteps : Tick(d)

(***************************************************************************)
(* Calls of the functions that keep no state: request holds the arguments, *)
(* response the outcome.                                                   *)
(***************************************************************************)
NoRequest == [op |-> "none"]
NoCall == request = NoRequest /\ response = <<>>
\* the version table is not used
NoChrome == versionsData = <<>> /\ versionsCache = <<>> /\ tableReads = 0

\* versions over a few segments, and the strings the comparator's contract
\* names
MaxSegments == 2
Segments == {"0", "1", "10", "x"}
V_1_2 == <<"1", "2">>
V_1_2_0_0 == <<"1", "2", "0", "0">>
V_1_9_0 == <<"1", "9", "0">>
V_1_x == <<"1", "x">>
V_1_0_0_0 == <<"1", "0", "0", "0">>
V_1_01 == <<"1", "01">>
V_empty == <<"">>
VersionStrings ==
    UNION {[1..n -> Segments] : n \in 1..MaxSegments}
    \cup {V_1_2, V_1_2_0_0, V_1_10_0, V_1_9_0, V_1_x, V_1_0_0_0, V_1_01, V_empty}

CompareInit ==
    /\ request \in {[op |-> "compareVersions", a |-> a, b |-> b, c |-> c] :
                        a \in VersionStrings, b \in VersionStrings,
                        c \in VersionStrings}
    /\ response = <<>>

\* compareVersions applied to the pairs of the three arguments
Compare ==
    /\ request.op = "compareVersions"
    /\ response = <<>>
    /\ response' = [ab |-> compareVersions(request.a, request.b),
                    ba |-> compareVersions(request.b, request.a),
                    bc |-> compareVersions(request.b, request.c),
                    ac |-> compareVersions(request.a, request.c)]
    /\ UNCHANGED request
    /\ UNCHANGED <<locateVars, cacheVars, chromeVars, hostVars>>

CompareNext == Compare

(***************************************************************************)
(* Chrome: fetchVersionsData and findClosestVersion (chrome-config.ts).    *)
(* The table maps a version to the download URLs of the platforms it has;  *)
(* Object.entries lists it in the order of the JSON document.              *)
(***************************************************************************)
MIN_MAC_ARM64_VERSION == <<"88", "0", "4324", "150">>
TableUnavailable == "Failed to fetch Chrome versions data"
NoAvailableVersions == "No available versions found for"

\* fetchVersionsData: the module's table if there is one, else a network read
fetchVersionsData(ok) ==
    IF versionsCache # <<>>
    THEN [threw |-> FALSE, data |-> versionsCache[1], reads |-> 0]
    ELSE IF ~ok THEN [threw |-> TRUE, data |-> <<>>, reads |-> 1]
    ELSE [threw |-> FALSE, data |-> versionsData, reads |-> 1]

\* versionsCache = data
cacheVersionsData(r) == IF r.threw THEN versionsCache ELSE <<r.data>>

platformKey(p) == IF p = "windows" THEN "win" ELSE p

\* the two filters of findClosestVersion
isAvailable(entry, p, a) ==
    /\ platformKey(p) \in entry.urls
    /\ (p = "mac" /\ a = "arm64") =>
           compareVersions(entry.version, MIN_MAC_ARM64_VERSION) >= 0

\* Object.entries(versions).filter(...).map(([version]) => version).filter(...)
RECURSIVE availableOf(_, _, _)
availableOf(entries, p, a) ==
    IF entries = <<>> THEN <<>>
    ELSE IF isAvailable(Head(entries), p, a)
    THEN <<Head(entries).version>> \o availableOf(Tail(entries), p, a)
    ELSE availableOf(Tail(entries), p, a)

\* Array.prototype.sort(compareVersions): ascending, and stable
RECURSIVE insertSorted(_, _)
insertSorted(sorted, v) ==
    IF sorted = <<>> THEN <<v>>
    ELSE IF compareVersions(sorted[Len(sorted)], v) <= 0 THEN Append(sorted, v)
    ELSE Append(insertSorted(SubSeq(sorted, 1, Len(sorted) - 1), v),
                sorted[Len(sorted)])

RECURSIVE sort(_)
sort(versions) ==
    IF versions = <<>> THEN <<>>
    ELSE insertSorted(sort(SubSeq(versions, 1, Len(versions) - 1)),
                      versions[Len(versions)])

\* a test that skips a version equal to the target
atLeastStrict(v, target) == compareVersions(v, target) > 0

\* compareVersions(version, targetVersion) >= 0
atLeast(v, target) == compareVersions(v, target) >= 0

\* availableVersions.find(...) || availableVersions[availableVersions.length - 1]
closestVersion(availableVersions, target) ==
    LET hits == {i \in DOMAIN availableVersions :
                    atLeast(availableVersions[i], target)}
    IN IF hits # {} /\ TruthyVersion(availableVersions[Min(hits)])
       THEN availableVersions[Min(hits)]
       ELSE availableVersions[Len(availableVersions)]

\* findClosestVersion(targetVersion, platform, arch)
findClosestVersion ==
    /\ request.op = "findClosestVersion"
    /\ response = <<>>
    /\ \E ok \in BOOLEAN :
        LET r == fetchVersionsData(ok)
            availableVersions ==
                sort(availableOf(r.data, request.platform, request.arch))
        IN /\ versionsCache' = cacheVersionsData(r)
           /\ tableReads' = tableReads + r.reads
           /\ response' =
                 IF r.threw THEN [threw |-> TRUE, value |-> TableUnavailable]
                 ELSE IF Len(availableVersions) = 0
                 THEN [threw |-> TRUE, value |-> NoAvailableVersions]
                 ELSE [threw |-> FALSE,
                       value |-> closestVersion(availableVersions,
                                                request.targetVersion)]
    /\ UNCHANGED <<request, versionsData>>
    /\ UNCHANGED <<locateVars, cacheVars, hostVars>>

\* tables of up to MaxTable versions, in any document order
MaxTable == 3
V_87_0 == <<"87", "0">>
V_90_0 == <<"90", "0">>
V_90_0_0 == <<"90", "0", "0">>
V_120 == <<"120", "0", "6099", "109">>
TableVersions == {V_87_0, MIN_MAC_ARM64_VERSION, V_90_0, V_90_0_0}
UrlSets == {{"mac"}, {"win", "linux"}, {"mac", "win", "linux"}}
Tables ==
    UNION {
        {[i \in 1..n |-> [version |-> vs[i], urls |-> us[i]]] :
            vs \in {f \in [1..n -> TableVersions] :
                       \A i, j \in 1..n : i # j => f[i] # f[j]},
            us \in [1..n -> UrlSets]} :
        n \in 0..MaxTable}
Targets == {V_1_10, V_87_0, V_90_0, V_120}
PlatformArchs == {<<"mac", "arm64">>, <<"mac", "x64">>, <<"windows", "x64">>}

ClosestInit ==
    /\ versionsData \in Tables
    /\ versionsCache = <<>>
    /\ tableReads = 0
    /\ request \in {[op |-> "findClosestVersion", targetVersion |-> t,
                     platform |-> pa[1], arch |-> pa[2]] :
                        t \in Targets, pa \in PlatformArchs}
    /\ response = <<>>

ClosestNext == findClosestVersion

(***************************************************************************)
(* ChromeConfig.getLatestVersion: getCachedVersion with a fetcher that     *)
(* takes the first key of the table fetchVersionsData returns.  When the   *)
(* module already holds the table the fetcher never leaves the microtask   *)
(* queue, so the call completes in the step that began it; otherwise it    *)
(* awaits the network read.                                                *)
(***************************************************************************)
Arm64Unsupported == "does not support arm64 on macOS"
AllUrls == {"mac", "win", "linux"}

\* the fetcher after fetchVersionsData returned `versions`, for cache key k
latestOf(versions, k) ==
    LET latestVersion == versions[1].version
    IN IF /\ k = "mac-arm64"
          /\ compareVersions(latestVersion, MIN_MAC_ARM64_VERSION) < 0
       THEN [threw |-> TRUE, value |-> Arm64Unsupported]
       ELSE [threw |-> FALSE, value |-> latestVersion]

\* the rest of getCachedVersion once the fetcher settled with outcome r
settle(c, k, now, r) ==
    /\ versionCache' = IF r.threw THEN catchBlock(versionCache, k, now)
                       ELSE cacheSet(versionCache, k, r.value, now)
    /\ lastWriter' = IF r.threw THEN lastWriter
                     ELSE [x \in DOMAIN lastWriter \cup {k} |->
                              IF x = k THEN c ELSE lastWriter[x]]

\* getLatestVersion(platform, arch) up to the first network await, or to its
\* end when there is none
getLatestVersion(c, k) ==
    /\ calls[c].pc = "idle"
    /\ \A d \in CallIds : d < c => calls[d].pc # "idle"
    /\ LET now == clock
           cached == cacheGet(versionCache, k)
           call == [IdleCall EXCEPT !.key = k, !.now = now, !.cached = cached,
                                    !.seen = Settled]
       IN IF isFresh(cached, now)
          THEN /\ calls' = [calls EXCEPT ![c] =
                              [call EXCEPT !.pc = "hit",
                                           !.result = cached[1].version]]
               /\ UNCHANGED <<versionCache, lastWriter, tableReads>>
          ELSE IF versionsCache # <<>>
          THEN LET r == latestOf(fetchVersionsData(TRUE).data, k)
               IN /\ calls' = [calls EXCEPT ![c] =
                                 IF r.threw THEN [call EXCEPT !.pc = "threw"]
                                 ELSE [call EXCEPT !.pc = "stored",
                                                   !.result = r.value]]
                  /\ settle(c, k, now, r)
                  /\ UNCHANGED tableReads
          ELSE /\ calls' = [calls EXCEPT ![c] = [call EXCEPT !.pc = "fetching"]]
               /\ tableReads' = tableReads + 1
               /\ UNCHANGED <<versionCache, lastWriter>>
    /\ UNCHANGED <<clock, versionsData, versionsCache>>
    /\ UNCHANGED <<locateVars, callVars, hostVars>>

\* the response of fetch(VERSIONS_URL) arrives, and the call runs to its end
TableReadSettles(c) ==
    /\ calls[c].pc = "fetching"
    /\ \E ok \in BOOLEAN :
        LET read == IF ok THEN [threw |-> FALSE, data |-> versionsData]
                    ELSE [threw |-> TRUE, data |-> <<>>]
            r == IF read.threw THEN [threw |-> TRUE, value |-> TableUnavailable]
                 ELSE latestOf(read.data, calls[c].key)
        IN /\ versionsCache' = IF read.threw THEN versionsCache ELSE <<read.data>>
           /\ calls' = [calls EXCEPT ![c] =
                          IF r.threw THEN [@ EXCEPT !.pc = "threw"]
                          ELSE [@ EXCEPT !.pc = "stored", !.result = r.value]]
           /\ settle(c, calls[c].key, calls[c].now, r)
    /\ UNCHANGED <<clock, versionsData, tableReads>>
    /\ UNCHANGED <<locateVars, callVars, hostVars>>

\* a new Chrome release is put at the head of the table
Publish ==
    /\ versionsData[1].version # V_120
    /\ versionsData' = <<[version |-> V_120, urls |-> AllUrls]>> \o versionsData
    /\ UNCHANGED <<versionsCache, tableReads>>
    /\ UNCHANGED <<locateVars, cacheVars, callVars, hostVars>>

ChromeLatestInit ==
    /\ versionsData \in {<<[version |-> v, urls |-> AllUrls]>> :
                            v \in {V_87_0, V_90_0}}
    /\ versionsCache = <<>>
    /\ tableReads = 0

ChromeLatestNext ==
    \/ \E c \in CallIds, k \in CacheKeys : getLatestVersion(c, k)
    \/ \E c \in CallIds : TableReadSettles(c)
    \/ \E d \in TickSteps : Tick(d)
    \/ Publish

(***************************************************************************)
(* The browsers with a downloadUrlTemplate: Edge, Brave and Arc.  A        *)
(* template is held as its pieces, a placeholder being a piece of its own; *)
(* a URL is the sequence of the pieces after substitution.                 *)
(***************************************************************************)
BothArchs == {"x64", "arm64"}

EdgePlatforms ==
    [windows |-> [arch |-> BothArchs, downloadUrlTemplate |->
        <<"https://msedge.sf.dl.delivery.mp.microsoft.com/filestreamingservice/files/",
          "{{version}}", "/MicrosoftEdgeSetup.exe">>],
     mac |-> [arch |-> BothArchs, downloadUrlTemplate |->
        <<"https://officecdn-microsoft-com.akamaized.net/pr/C1297A47-86C4-4C1F-97FA-950631F94777/MacAutoupdate/MicrosoftEdge-",
          "{{version}}", ".pkg">>],
     linux |-> [arch |-> BothArchs, downloadUrlTemplate |->
        <<"https://packages.microsoft.com/repos/edge/pool/main/m/microsoft-edge-stable/microsoft-edge-stable_",
          "{{version}}", "_", "{{arch}}", ".deb">>]]

BravePlatforms ==
    [windows |-> [arch |-> BothArchs, downloadUrlTemplate |->
        <<"https://github.com/brave/brave-browser/releases/download/v",
          "{{version}}", "/BraveBrowserSetup",
          "{{arch === \"arm64\" ? \"ARM64\" : \"\"}}", ".exe">>],
     mac |-> [arch |-> BothArchs, downloadUrlTemplate |->
        <<"https://github.com/brave/brave-browser/releases/download/v",
          "{{version}}", "/Brave-Browser-", "{{arch}}", ".dmg">>],
     linux |-> [arch |-> BothArchs, downloadUrlTemplate |->
        <<"https://github.com/brave/brave-browser/releases/download/v",
          "{{version}}", "/brave-browser_", "{{version}}", "_",
          "{{arch === \"x64\" ? \"amd64\" : \"arm64\"}}", ".deb">>]]

ArcPlatforms ==
    [mac |-> [arch |-> BothArchs, downloadUrlTemplate |->
        <<"https://releases.arc.net/release/Arc-latest.dmg">>],
     windows |-> [arch |-> {"x64"}, downloadUrlTemplate |->
        <<"https://releases.arc.net/windows/ArcInstaller.exe">>]]

platformsOf(browser) ==
    CASE browser = "Edge" -> EdgePlatforms
      [] browser = "Brave" -> BravePlatforms
      [] browser = "Arc" -> ArcPlatforms

MissingTemplateVariable == "Missing template variable"
ArcLatestOnly == "Arc Browser only supports downloading the latest version"
ArcUnsupportedPlatform == "Arc Browser is only supported on macOS and Windows"

\* the key of a piece that matches /\{\{(\w+)\}\}/, "" for any other piece
placeholderKey(piece) ==
    CASE piece = "{{version}}" -> "version"
      [] piece = "{{arch}}" -> "arch"
      [] piece = "{{basePath}}" -> "basePath"
      [] piece = "{{installPath}}" -> "installPath"
      [] OTHER -> ""

\* a substitution that puts the architecture where the version belongs
replaceTemplateSwapped(template, values) ==
    [threw |-> FALSE,
     value |-> [i \in DOMAIN template |->
                  IF placeholderKey(template[i]) = "" THEN template[i]
                  ELSE values.arch]]

\* replaceTemplate(template, vars)
replaceTemplate(template, values) ==
    IF \E i \in DOMAIN template :
          /\ placeholderKey(template[i]) # ""
          /\ placeholderKey(template[i]) \notin DOMAIN values
    THEN [threw |-> TRUE, value |-> MissingTemplateVariable]
    ELSE [threw |-> FALSE,
          value |-> [i \in DOMAIN template |->
                       IF placeholderKey(template[i]) = "" THEN template[i]
                       ELSE values[placeholderKey(template[i])]]]

\* validatePlatformConfig(platform, arch): the error it throws, or "none"
validatePlatformConfig(platforms, p, a) ==
    IF p \notin DOMAIN platforms THEN UnsupportedPlatform
    ELSE IF Truthy(a) /\ a \notin platforms[p].arch THEN UnsupportedArch
    ELSE "none"

\* BaseBrowserConfig.getDownloadUrl of a browser that has templates only;
\* an argument that is undefined is held as ""
baseGetDownloadUrl(platforms, p, v, a) ==
    LET normalizedPlatform == normalizePlatform(p)
        normalizedArch == toLowerCase(a)
        invalid == validatePlatformConfig(platforms, normalizedPlatform,
                                          normalizedArch)
    IN IF invalid # "none" THEN [threw |-> TRUE, value |-> invalid]
       ELSE replaceTemplate(platforms[normalizedPlatform].downloadUrlTemplate,
                            [version |-> v, arch |-> normalizedArch])

\* ArcConfig.getDownloadUrl({ platform, version })
arcGetDownloadUrl(p, v) ==
    IF Truthy(v) THEN [threw |-> TRUE, value |-> ArcLatestOnly]
    ELSE IF normalizePlatform(p) \notin {"mac", "windows"}
    THEN [threw |-> TRUE, value |-> ArcUnsupportedPlatform]
    ELSE baseGetDownloadUrl(ArcPlatforms, p, "", "")

\* browser.getDownloadUrl({ platform, version, arch })
TemplateGetDownloadUrl ==
    /\ request.op = "getDownloadUrl"
    /\ response = <<>>
    /\ response' =
          IF request.browser = "Arc"
          THEN arcGetDownloadUrl(request.platform, request.version)
          ELSE baseGetDownloadUrl(platformsOf(request.browser), request.platform,
                                  request.version, request.arch)
    /\ UNCHANGED request
    /\ UNCHANGED <<locateVars, cacheVars, chromeVars, hostVars>>

TemplateBrowsers == {"Edge", "Brave", "Arc"}
TemplatePlatformArgs == {"windows", "mac", "linux", "Linux", "macos", "win", "freebsd"}
TemplateArchArgs == {"x64", "arm64", "ARM64", "x86", ""}
TemplateVersionArgs == {"120.0.6099.109", "latest", ""}

TemplateInit ==
    /\ request \in {[op |-> "getDownloadUrl", browser |-> b, platform |-> p,
                     arch |-> a, version |-> v] :
                        b \in TemplateBrowsers, p \in TemplatePlatformArgs,
                        a \in TemplateArchArgs, v \in TemplateVersionArgs}
    /\ response = <<>>

TemplateNext == TemplateGetDownloadUrl

(***************************************************************************)
(* install(params) up to the download URL it resolves.  params is held as  *)
(* a record that has a field exactly for the properties the caller gave;   *)
(* `given` tells whether an argument was passed at all.  A call that the   *)
(* base class hands to a downloadUrlResolver is answered with the          *)
(* resolver's arguments, <<"downloadUrlResolver", platform, arch,          *)
(* version>>, in the place of the URL.                                     *)
(***************************************************************************)
TypeError == "TypeError"

ChromePlatforms ==
    [windows |-> {"x64", "arm64"}, mac |-> {"x64", "arm64"},
     linux |-> {"x64", "arm64"}]

\* params.f, "" when the property is undefined
prop(params, f) == IF f \in DOMAIN params THEN params[f] ELSE ""

\* BaseBrowserConfig.getDownloadUrl of Chrome and Chromium
resolverGetDownloadUrl(name, platforms, p, v, a) ==
    LET normalizedPlatform == normalizePlatform(p)
        normalizedArch == toLowerCase(a)
    IN IF normalizedPlatform \notin DOMAIN platforms
          THEN [threw |-> TRUE, value |-> UnsupportedPlatform]
       ELSE IF /\ Truthy(normalizedArch)
               /\ normalizedArch \notin platforms[normalizedPlatform]
          THEN [threw |-> TRUE, value |-> UnsupportedArch]
       ELSE IF Truthy(v) /\ Truthy(normalizedArch)
          THEN [threw |-> FALSE,
                value |-> <<"downloadUrlResolver", normalizedPlatform,
                            normalizedArch, v>>]
       ELSE [threw |-> TRUE, value |-> NoDownloadConfiguration]

\* this.getDownloadUrl(params) of the browser
getDownloadUrlOf(browser, params) ==
    LET v == prop(params, "version")
        a == prop(params, "arch")
    IN IF browser = "Arc" /\ Truthy(v)
          THEN [threw |-> TRUE, value |-> ArcLatestOnly]
       ELSE IF "platform" \notin DOMAIN params
          THEN [threw |-> TRUE, value |-> TypeError]
       ELSE CASE browser = "Arc" -> arcGetDownloadUrl(params.platform, v)
              [] browser = "Chrome" ->
                    resolverGetDownloadUrl("Google Chrome", ChromePlatforms,
                                           params.platform, v, a)
              [] browser = "Chromium" ->
                    resolverGetDownloadUrl("Chromium", ChromiumPlatforms,
                                           params.platform, v, a)
              [] OTHER -> baseGetDownloadUrl(platformsOf(browser),
                                             params.platform, v, a)

\* browser.install(params): const { platform, arch, customBasePath } = params,
\* then const downloadUrl = await this.getDownloadUrl(params)
InstallGetDownloadUrl ==
    /\ request.op = "install"
    /\ response = <<>>
    /\ response' = IF ~request.given
                      THEN [threw |-> TRUE, value |-> TypeError]
                   ELSE getDownloadUrlOf(request.browser, request.params)
    /\ UNCHANGED request
    /\ UNCHANGED <<locateVars, cacheVars, chromeVars, hostVars>>

Browsers == {"Chrome", "Chromium", "Edge", "Brave", "Arc"}
\* the platform and architecture the process runs on
Hosts == {[platform |-> "linux", arch |-> "x64"],
          [platform |-> "mac", arch |-> "arm64"]}
ParamSets ==
    UNION {[F -> {"linux", "mac", "windows", "x64", "arm64", "120.0.6099.109"}] :
              F \in SUBSET {"platform", "arch", "version"}}
\* the parameter objects a caller passes
InstallParams ==
    {ps \in ParamSets :
        /\ "platform" \in DOMAIN ps => ps.platform \in {"linux", "mac", "windows"}
        /\ "arch" \in DOMAIN ps => ps.arch \in {"x64", "arm64"}
        /\ "version" \in DOMAIN ps => ps.version = "120.0.6099.109"}

InstallUrlInit ==
    /\ request \in {[op |-> "install", browser |-> b, given |-> g,
                     params |-> ps, host |-> h] :
                        b \in Browsers, g \in BOOLEAN, ps \in InstallParams,
                        h \in Hosts}
    /\ ~request.given => request.params = <<>>
    /\ response = <<>>

InstallUrlNext == InstallGetDownloadUrl

(***************************************************************************)
(* ArcConfig.getLatestVersion: getCachedVersion with a fetcher that makes  *)
(* no request, so a call runs from its begin to its end in one step.  The  *)
(* cache key `${currentPlatform}-${currentArch}` is held as the pair.      *)
(***************************************************************************)
ArcWindowsX64Only == "Arc Browser on Windows only supports x64 architecture"

\* a fetcher that accepts every architecture on Windows
arcLatestFetcherAnyArch(currentPlatform, currentArch) ==
    IF normalizePlatform(currentPlatform) \notin {"mac", "windows"}
    THEN [threw |-> TRUE, value |-> ArcUnsupportedPlatform]
    ELSE [threw |-> FALSE, value |-> "latest"]

\* the fetcher ArcConfig.getLatestVersion hands to getCachedVersion
arcLatestFetcher(currentPlatform, currentArch) ==
    LET normalizedPlatform == normalizePlatform(currentPlatform)
    IN IF normalizedPlatform \notin {"mac", "windows"}
       THEN [threw |-> TRUE, value |-> ArcUnsupportedPlatform]
       ELSE IF normalizedPlatform = "windows" /\ currentArch # "x64"
       THEN [threw |-> TRUE, value |-> ArcWindowsX64Only]
       ELSE [threw |-> FALSE, value |-> "latest"]

\* arc.getLatestVersion(platform, arch)
arcGetLatestVersion(c, p, a) ==
    /\ calls[c].pc = "idle"
    /\ \A d \in CallIds : d < c => calls[d].pc # "idle"
    /\ LET k == <<p, a>>
           now == clock
           cached == cacheGet(versionCache, k)
           call == [IdleCall EXCEPT !.key = k, !.now = now, !.cached = cached,
                                    !.seen = Settled]
           r == arcLatestFetcher(p, a)
       IN IF isFresh(cached, now)
          THEN /\ calls' = [calls EXCEPT ![c] =
                              [call EXCEPT !.pc = "hit",
                                           !.result = cached[1].version]]
               /\ UNCHANGED <<versionCache, lastWriter>>
          ELSE /\ calls' = [calls EXCEPT ![c] =
                              [call EXCEPT !.pc = IF r.threw THEN "threw"
                                                  ELSE "stored",
                                           !.result = r.value]]
               /\ settle(c, k, now, r)
    /\ UNCHANGED clock
    /\ UNCHANGED <<locateVars, callVars, chromeVars, hostVars>>

ArcPlatformArgs == {"mac", "macos", "windows", "linux"}
ArcArchArgs == {"x64", "arm64"}

ArcLatestNext ==
    \/ \E c \in CallIds, p \in ArcPlatformArgs, a \in ArcArchArgs :
          arcGetLatestVersion(c, p, a)
    \/ \E d \in TickSteps : Tick(d)

(***************************************************************************)
(* The command-line program, scripts/cli.ts.  The modules it imports are   *)
(* evaluated before its own body, so the logger's constants are computed   *)
(* from the environment the process was started with; main() runs after.   *)
(* `logged` and `console` hold the logger calls of cli.ts itself.          *)
(***************************************************************************)
BROWSERS == {"chrome", "chromium", "edge", "brave", "arc"}
SUPPORTED_COMMANDS ==
    {"install", "remove", "getInstallationHistory", "getLatestVersion",
     "version"}
Flags == {"--silent", "--help"}

\* args._ of parseArgs: the arguments that are not options
positionals(args) == SelectSeq(args, LAMBDA a : a \notin Flags)
\* args.help, args.silent
flag(args, f) == \E i \in DOMAIN args : args[i] = f

\* logger.ts: the condition under which a call of the level is printed
shown(level, debugMode, testEnv) ==
    IF level = "error" THEN TRUE ELSE debugMode \/ testEnv

\* the calls lines, in order, through logger.<level>
log(lines) ==
    /\ logged' = logged \o lines
    /\ console' = console \o
          SelectSeq(lines, LAMBDA l : shown(l.level, isDebugMode, isTestEnv))

info(text) == [level |-> "info", text |-> text]
err(text) == [level |-> "error", text |-> text]
Usage == info("Usage: browser-manager <browser> <command> [options]")

\* Deno.exit(code)
Exit(code) == cliPc' = "exited" /\ exitCode' = code

\* import { logger } from "../src/logger.ts"
LoadLogger ==
    /\ cliPc = "load"
    /\ isDebugMode' = ("BROWSER_MANAGER_DEBUG=1" \in env)
    /\ isTestEnv' = ("DENO_ENV=test" \in env)
    /\ cliPc' = "main"
    /\ UNCHANGED <<argv, env, logged, console, exitCode>>
    /\ UNCHANGED <<locateVars, cacheVars, callVars, chromeVars, fsVars>>

\* main(), up to Deno.exit or to the await of the browser's operation;
\* answered tells whether the prompt for a version was answered
Main ==
    /\ cliPc = "main"
    /\ env' = IF flag(argv, "--silent") THEN env
              ELSE env \cup {"BROWSER_MANAGER_DEBUG=1"}
    /\ LET args == positionals(argv)
           browserName == IF Len(args) >= 1 THEN args[1] ELSE ""
           command == IF Len(args) >= 2 THEN args[2] ELSE ""
       IN IF flag(argv, "--help") \/ Len(argv) = 0
             THEN log(<<Usage>>) /\ Exit(0)
          ELSE IF command = "version"
             THEN log(<<info("Browser Manager v")>>) /\ Exit(0)
          ELSE IF browserName = ""
             THEN log(<<err("Browser name is required"), Usage>>) /\ Exit(1)
          ELSE IF browserName \notin BROWSERS
             THEN log(<<err("Invalid browser")>>) /\ Exit(1)
          ELSE IF command = ""
             THEN log(<<err("Command is required"), Usage>>) /\ Exit(1)
          ELSE IF command \notin SUPPORTED_COMMANDS
             THEN log(<<err("Invalid command")>>) /\ Exit(1)
          ELSE IF command = "install"
             THEN \E answered \in BOOLEAN :
                     IF answered
                     THEN /\ cliPc' = "command"
                          /\ UNCHANGED <<logged, console, exitCode>>
                     ELSE log(<<err("Error: Version is required")>>) /\ Exit(1)
          ELSE /\ cliPc' = "command"
               /\ UNCHANGED <<logged, console, exitCode>>
    /\ UNCHANGED <<argv, isDebugMode, isTestEnv>>
    /\ UNCHANGED <<locateVars, cacheVars, callVars, chromeVars, fsVars>>

\* what the handler of a command logs when the operation succeeds
resultLines(command) ==
    CASE command = "install" -> <<info("Successfully installed")>>
      [] command = "remove" -> <<info("Successfully removed")>>
      [] command = "getInstallationHistory" -> <<info("Installation History:")>>
      [] command = "getLatestVersion" -> <<info("Latest version of")>>

\* the awaited operation of the browser settles: the handler logs its result
\* and main returns, or the catch block logs the error and exits with 1
CommandSettles ==
    /\ cliPc = "command"
    /\ \E ok \in BOOLEAN :
          IF ok THEN log(resultLines(positionals(argv)[2])) /\ Exit(0)
          ELSE log(<<err("Error:")>>) /\ Exit(1)
    /\ UNCHANGED <<argv, env, isDebugMode, isTestEnv>>
    /\ UNCHANGED <<locateVars, cacheVars, callVars, chromeVars, fsVars>>

\* the command lines tried: up to two positional arguments, then options
Words == {"chrome", "arc", "install", "getLatestVersion", "version", "bogus"}
Positionals == {<<>>} \cup {<<a>> : a \in Words}
                     \cup {<<a, b>> : a \in Words, b \in Words}
Options == {<<>>, <<"--silent">>, <<"--help">>, <<"--silent", "--help">>}
Environments == SUBSET {"BROWSER_MANAGER_DEBUG=1", "DENO_ENV=test"}

CliInit ==
    /\ argv \in {ps \o os : ps \in Positionals, os \in Options}
    /\ env \in Environments
    /\ isDebugMode = FALSE
    /\ isTestEnv = FALSE
    /\ logged = <<>>
    /\ console = <<>>
    /\ exitCode = 0
    /\ cliPc = "load"

CliNext == LoadLogger \/ Main \/ CommandSettles

\* the command-line program is not run
NoCli ==
    /\ argv = <<>>
    /\ env = {}
    /\ isDebugMode = FALSE
    /\ isTestEnv = FALSE
    /\ logged = <<>>
    /\ console = <<>>
    /\ exitCode = 0
    /\ cliPc = "none"

(***************************************************************************)
(* install, remove and getInstallationHistory of BaseBrowserConfig on the  *)
(* file system.  A path is the sequence of its names.  The calls of one    *)
(* behaviour run one after the other; each is one step, its awaited        *)
(* operations (download, installer) failing or not as the step chooses.    *)
(***************************************************************************)
MaxOps == 3           \* install / remove / history calls in one behaviour

dirname(path) == SubSeq(path, 1, Len(path) - 1)
\* path is dir or lies below it
IsUnder(path, dir) ==
    Len(path) >= Len(dir) /\ SubSeq(path, 1, Len(dir)) = dir
\* ensureDir(path): the directory and its missing ancestors are created
ensureDir(tree, path) == tree \cup {SubSeq(path, 1, n) : n \in 1..Len(path)}
\* Deno.remove(path, { recursive: true }) of an existing path
removeRecursive(tree, path) == {q \in tree : ~IsUnder(q, path)}
\* the .installation-info files that are left when path is removed
infoOutside(files, path) ==
    [t \in {u \in DOMAIN files : ~IsUnder(u, path)} |-> files[t]]
\* Deno.readDirSync(dir) has no entry
isEmptyDir(tree, files, dir) ==
    /\ \A q \in tree : IsUnder(q, dir) => q = dir
    /\ dir \notin DOMAIN files

\* PLATFORM_PATHS[platform] ?? '/usr/local'
PLATFORM_PATHS(p) ==
    CASE p = "mac" -> <<"Applications">>
      [] p = "windows" -> <<"C:", "Program Files">>
      [] OTHER -> <<"usr", "local">>

\* getInstallPath: installPathTemplate '{{basePath}}/bin' of the linux
\* configurations of Chrome and Brave
getInstallPath(browser, p, basePath) == basePath \o <<"bin">>

\* JSON.parse(await Deno.readTextFile(infoPath)), <<>> when the read fails
readInfo(files, targetPath) ==
    IF targetPath \in DOMAIN files THEN files[targetPath] ELSE <<>>
\* Deno.writeTextFile(infoPath, ...): fails unless the directory exists
canWrite(tree, targetPath) == targetPath \in tree
writeInfo(files, targetPath, installations) ==
    [t \in DOMAIN files \cup {targetPath} |->
        IF t = targetPath THEN installations ELSE files[t]]
\* Deno.remove(infoPath)
removeInfo(files, targetPath) ==
    [t \in DOMAIN files \ {targetPath} |-> files[t]]

\* .sort((a, b) => new Date(b.installDate) - new Date(a.installDate))
RECURSIVE sortNewestFirst(_)
sortNewestFirst(records) ==
    IF records = <<>> THEN <<>>
    ELSE LET rest == sortNewestFirst(Tail(records))
             first == Head(records)
             k == Cardinality({i \in DOMAIN rest :
                                 rest[i].installDate > first.installDate})
         IN SubSeq(rest, 1, k) \o <<first>> \o SubSeq(rest, k + 1, Len(rest))
\* .filter(i => i.browser === this.name)
ofBrowser(installations, browser) ==
    SelectSeq(installations, LAMBDA i : i.browser = browser)

NoOp == [op |-> "none"]
Done(entry) ==
    /\ opCount < MaxOps
    /\ opCount' = opCount + 1
    /\ lastOp' = entry

\* install(params), as the command-line program calls it, with a version;
\* failAt names the awaited operation that throws, creates tells whether the
\* installer or the extraction left the install path in place
install(browser, params, failAt, creates) ==
    LET customBasePath == params.customBasePath
        isCustomPath == customBasePath # <<>>
        basePath == IF isCustomPath THEN customBasePath
                    ELSE PLATFORM_PATHS(params.platform)
        targetPath == getInstallPath(browser, params.platform, basePath)
        \* ensureDir(customBasePath)
        fs1 == IF isCustomPath THEN ensureDir(fs, customBasePath) ELSE fs
        \* ensureDir(dirname(targetPath)), after the download
        fs2 == ensureDir(fs1, dirname(targetPath))
        \* the installer or the extraction has run
        fs3 == IF creates THEN ensureDir(fs2, targetPath) ELSE fs2
        record == [browser |-> browser, version |-> params.version,
                   platform |-> params.platform, arch |-> params.arch,
                   downloadUrl |-> <<browser, params.version>>,
                   isCustomPath |-> isCustomPath, basePath |-> basePath,
                   installDate |-> clock + 1]
        installations == Append(readInfo(infoFiles, targetPath), record)
        failed == failAt # "none" \/ ~canWrite(fs3, targetPath)
        \* the tree at the moment the error is thrown
        reached == CASE failAt = "getDownloadUrl" -> fs
                     [] failAt = "download" -> fs1
                     [] failAt = "installer" -> fs2
                     [] OTHER -> fs3
        \* catch: if (customBasePath) await Deno.remove(basePath, recursive);
        \* basePath is still '' when getDownloadUrl threw
        cleaned == isCustomPath /\ failAt # "getDownloadUrl"
    IN /\ Truthy(params.version)
       /\ clock' = clock + 1
       /\ IF failed
             THEN /\ fs' = IF cleaned THEN removeRecursive(reached, basePath)
                           ELSE reached
                  /\ infoFiles' = IF cleaned THEN infoOutside(infoFiles, basePath)
                                  ELSE infoFiles
                  /\ Done([op |-> "install", browser |-> browser,
                           params |-> params, threw |-> TRUE, result |-> <<>>])
          ELSE /\ fs' = fs3
               /\ infoFiles' = writeInfo(infoFiles, targetPath, installations)
               /\ Done([op |-> "install", browser |-> browser,
                        params |-> params, threw |-> FALSE,
                        result |-> <<record>>])
       /\ UNCHANGED <<versionCache, calls, lastWriter>>
       /\ UNCHANGED <<locateVars, callVars, chromeVars, cliVars>>

\* the records remove keeps: those of another browser or, when a version is
\* given, of another version
kept(installations, browser, v) ==
    SelectSeq(installations,
              LAMBDA i : i.browser # browser \/ (Truthy(v) /\ i.version # v))

\* remove(params)
remove(browser, params) ==
    LET defaultBasePath == PLATFORM_PATHS(params.platform)
        targetPath == getInstallPath(browser, params.platform, defaultBasePath)
        installations == readInfo(infoFiles, targetPath)
        mine == sortNewestFirst(ofBrowser(installations, browser))
        isCustomPath == mine # <<>> /\ mine[1].isCustomPath
        customBasePath == IF mine # <<>> THEN mine[1].basePath ELSE <<>>
        \* await Deno.remove(targetPath, { recursive: true })
        fs1 == removeRecursive(fs, targetPath)
        files1 == infoOutside(infoFiles, targetPath)
        updatedInstallations == kept(installations, browser, params.version)
        \* the update of the info file; its errors are caught
        files2 == IF installations = <<>> THEN files1
                  ELSE IF updatedInstallations # <<>>
                  THEN IF canWrite(fs1, targetPath)
                       THEN writeInfo(files1, targetPath, updatedInstallations)
                       ELSE files1
                  ELSE removeInfo(files1, targetPath)
        \* the custom base directory is removed if it is empty
        fs2 == IF /\ isCustomPath /\ customBasePath # <<>>
                  /\ customBasePath \in fs1
                  /\ isEmptyDir(fs1, files2, customBasePath)
               THEN fs1 \ {customBasePath} ELSE fs1
    IN /\ IF targetPath \notin fs
             THEN /\ UNCHANGED <<fs, infoFiles>>
                  /\ Done([op |-> "remove", browser |-> browser,
                           params |-> params, threw |-> TRUE, result |-> <<>>])
          ELSE /\ fs' = fs2
               /\ infoFiles' = files2
               /\ Done([op |-> "remove", browser |-> browser,
                        params |-> params, threw |-> FALSE, result |-> <<>>])
       /\ UNCHANGED cacheVars
       /\ UNCHANGED <<locateVars, callVars, chromeVars, cliVars>>

\* the list getInstallationHistory(params) returns
historyOf(files, browser, params) ==
    LET defaultBasePath == PLATFORM_PATHS(params.platform)
        targetPath == getInstallPath(browser, params.platform, defaultBasePath)
    IN sortNewestFirst(ofBrowser(readInfo(files, targetPath), browser))

\* getLatestInstallation: history[0] ?? null, <<>> for null
getLatestInstallation(history) ==
    IF history = <<>> THEN <<>> ELSE <<history[1]>>

\* getInstallationHistory(params)
getInstallationHistory(browser, params) ==
    /\ Done([op |-> "getInstallationHistory", browser |-> browser,
             params |-> params, threw |-> FALSE,
             result |-> historyOf(infoFiles, browser, params)])
    /\ UNCHANGED <<fs, infoFiles>>
    /\ UNCHANGED cacheVars
    /\ UNCHANGED <<locateVars, callVars, chromeVars, cliVars>>

\* this.name of the browsers installed
BrowserNames == {"Google Chrome", "Brave"}
CustomPath == <<"custom">>
\* the parameter objects of the calls; version "" and customBasePath <<>>
\* when the property is not given
FsParams ==
    [platform : {"linux"}, arch : {"x64"}, version : {"", "1.0", "2.0"},
     customBasePath : {<<>>, CustomPath}]
InstallFailures == {"none", "getDownloadUrl", "download", "installer"}

\* what exists before the first call: /usr/local, perhaps /usr/local/bin,
\* perhaps the custom directory with a file of the user in it
UserFile == CustomPath \o <<"notes.txt">>
InitialTrees ==
    {ensureDir({}, PLATFORM_PATHS("linux")) \cup bin \cup custom :
        bin \in {{}, {PLATFORM_PATHS("linux") \o <<"bin">>}},
        custom \in {{}, {CustomPath, UserFile}}}

FsInit ==
    /\ fs \in InitialTrees
    /\ infoFiles = <<>>
    /\ lastOp = NoOp
    /\ opCount = 0

FsNext ==
    \/ \E b \in BrowserNames, ps \in FsParams, failAt \in InstallFailures,
          creates \in BOOLEAN :
          install(b, ps, failAt, creates)
    \/ \E b \in BrowserNames, ps \in FsParams : remove(b, ps)
    \/ \E b \in BrowserNames, ps \in FsParams : getInstallationHistory(b, ps)

\* no call works on the file system
NoFs == fs = {} /\ infoFiles = <<>> /\ lastOp = NoOp /\ opCount = 0
NoHost == NoCli /\ NoFs

\* no resolution call is made
LocateIdle ==
    /\ feed = <<>>
    /\ artifacts = {}
    /\ platform = "linux"
    /\ arch = "x64"
    /\ version = V_1_10
    /\ pc = "done"
    /\ offset = 0
    /\ offsetLow = 0
    /\ offsetHigh = 0
    /\ fetched = <<>>
    /\ buildNumber = <<>>
    /\ attempt = 0
    /\ urlIndex = 1
    /\ probes = <<>>
    /\ closestBuild = <<>>
    /\ error = "none"
    /\ downloadUrl = <<>>

Init == LocateInit /\ CacheInit /\ NoCall /\ NoChrome /\ NoHost
Next == ResolveNext \/ BinaryNext \/ CacheNext \/ CompareNext \/ ClosestNext
           \/ ChromeLatestNext \/ TemplateNext \/ ArcLatestNext
           \/ InstallUrlNext \/ CliNext \/ FsNext
Spec == Init /\ [][Next]_vars

\* a resolution call on its own, and the cache on its own
LocateStart == LocateInit /\ CacheInit /\ NoCall /\ NoChrome /\ NoHost
CacheStart == LocateIdle /\ CacheInit /\ NoCall /\ NoChrome /\ NoHost
CompareStart == LocateIdle /\ CacheInit /\ CompareInit /\ NoChrome /\ NoHost
CompareSpec == CompareStart /\ [][CompareNext]_vars
ClosestStart == LocateIdle /\ CacheInit /\ ClosestInit /\ NoHost
ClosestSpec == ClosestStart /\ [][ClosestNext]_vars
TemplateStart == LocateIdle /\ CacheInit /\ TemplateInit /\ NoChrome /\ NoHost
TemplateSpec == TemplateStart /\ [][TemplateNext]_vars
InstallUrlStart == LocateIdle /\ CacheInit /\ InstallUrlInit /\ NoChrome /\ NoHost
InstallUrlSpec == InstallUrlStart /\ [][InstallUrlNext]_vars
CliStart == LocateIdle /\ CacheInit /\ NoCall /\ NoChrome /\ CliInit /\ NoFs
FsStart == LocateIdle /\ CacheInit /\ NoCall /\ NoChrome /\ NoCli /\ FsInit
FsSpec == FsStart /\ [][FsNext]_vars
CliSpec == CliStart /\ [][CliNext]_vars
ArcLatestStart == LocateIdle /\ CacheInit /\ NoCall /\ NoChrome /\ NoHost
ArcLatestSpec == ArcLatestStart /\ [][ArcLatestNext]_vars
ChromeLatestStart == LocateIdle /\ CacheInit /\ NoCall /\ ChromeLatestInit /\ NoHost
ChromeLatestSpec == ChromeLatestStart /\ [][ChromeLatestNext]_vars
LocateSpec == LocateStart /\ [][LocateNext]_vars
BinaryStart == BinaryInit /\ CacheInit /\ NoCall /\ NoChrome /\ NoHost
BinarySpec == BinaryStart /\ [][BinaryNext]_vars
ResolveStart == ResolveInit /\ CacheInit /\ NoCall /\ NoChrome /\ NoHost
ResolveSpec == ResolveStart /\ [][ResolveNext]_vars
CacheSpec == CacheStart /\ [][CacheNext]_vars

(***************************************************************************)
(* Properties of Chromium build location (LocateSpec).                     *)
(***************************************************************************)
Terminal == pc \in {"done", "failed"}
\* the feed yielded a candidate build position
Matched == buildNumber # <<>>
ReportedPosition == parseInt(buildNumber)
ProbedPosition(n) == parseInt(buildOf(probes[n].url))
ProbedPositions == {ProbedPosition(n) : n \in DOMAIN probes}

\* the candidates of the bounded sweep around p
Candidates(p) ==
    {p + i : i \in 0..(maxAttempts - 1)} \cup {p - i : i \in 0..(maxAttempts - 1)}

\* the existing artifact nearest to p within the bound, the upper one at a tie
Nearest(p, A) ==
    LET d == Min({Abs(q - p) : q \in A \cap Candidates(p)})
    IN IF p + d \in A THEN p + d ELSE p - d

\* C1: when the feed yields position P and some artifact exists within the
\* probe bound, locate returns the existing position nearest to P, the upper
\* one P+i being preferred over P-i at equal distance.
C1_NearestArtifact ==
    (Matched /\ Terminal /\ artifacts \cap Candidates(ReportedPosition) # {})
        => /\ pc = "done"
           /\ closestBuild = toString(Nearest(ReportedPosition, artifacts))

\* page 0 holds the version at P, only P+2 exists, and P+2 is returned
C1_Witness ==
    /\ pc = "done"
    /\ Len(fetched) = 1
    /\ ReportedPosition = BasePosition
    /\ artifacts = {BasePosition + 2}
    /\ closestBuild = toString(BasePosition + 2)

\* the feed's list is ordered newest first under compareVersions
SortedFeed ==
    \A j \in 1..(Len(feed) - 1) :
        compareVersions(feed[j].version, feed[j + 1].version) >= 0
MatchRuns == {j \in DOMAIN feed : feed[j].version = version}
\* list index (0-based) of the first entry whose version equals the request
FirstMatchIndex == EntriesBefore(feed, Min(MatchRuns) - 1)
AllFetchesOk == \A n \in DOMAIN fetched : fetched[n].ok

\* C2: over a newest-first feed served in 50-entry pages, if the requested
\* version occurs at a list index below 1000, locate does not fail with
\* VersionNotFound, and its candidate position is that of the first such
\* entry in feed order, duplicates included.
C2_FirstMatchWithinBound ==
    (SortedFeed /\ MatchRuns # {} /\ FirstMatchIndex < maxOffset)
        => /\ error # VersionNotFound
           /\ Matched => ReportedPosition = feed[Min(MatchRuns)].position
           /\ (Terminal /\ AllFetchesOk) => Matched

\* the first of several entries of the version sits at index 999
C2_Witness ==
    /\ SortedFeed
    /\ MatchRuns # {}
    /\ FirstMatchIndex = maxOffset - 1
    /\ feed[Min(MatchRuns)].count > 1
    /\ pc = "done"
    /\ ReportedPosition = feed[Min(MatchRuns)].position

\* the page the n-th request received
PageOf(n) == FeedPage(fetched[n].offset, numResults)
HasMatch(n) == fetched[n].ok /\ find(PageOf(n), version) # 0
\* a received page without the version whose oldest entry is older than it
OvershootPage(n) ==
    /\ fetched[n].ok
    /\ Len(PageOf(n)) > 0
    /\ find(PageOf(n), version) = 0
    /\ compareVersions(PageOf(n)[Len(PageOf(n))].version, version) < 0
\* every offset 0, 50, ..., 950 was received
BoundExhausted ==
    \A k \in 0..((maxOffset \div numResults) - 1) :
        \E n \in DOMAIN fetched : fetched[n].ok /\ fetched[n].offset = k * numResults

\* C3: locate fails with VersionNotFound, without any probe, when no fetched
\* page holds the version and the offset bound is exhausted or some page
\* overshoots; and after an overshoot page no further page is fetched.
C3_OvershootStops ==
    /\ (/\ Terminal
        /\ \A n \in DOMAIN fetched : ~HasMatch(n)
        /\ BoundExhausted \/ \E n \in DOMAIN fetched : OvershootPage(n))
           => (error = VersionNotFound /\ probes = <<>>)
    /\ \A n \in DOMAIN fetched : OvershootPage(n) => n = Len(fetched)

\* C4: given a feed match at P, locate fails with NoArtifactNearPosition
\* exactly when every candidate of the sweep was answered `absent`; and no
\* position outside [P - 4, P + 4] is probed.
C4_NoArtifactIff ==
    /\ (error = NoArtifactNearPosition) <=>
           (/\ Matched
            /\ \A q \in Candidates(ReportedPosition) :
                   \E n \in DOMAIN probes : ProbedPosition(n) = q /\ ~probes[n].ok)
    /\ error = NoArtifactNearPosition => pc = "failed"
    /\ \A n \in DOMAIN probes :
           Abs(ProbedPosition(n) - ReportedPosition) <= maxAttempts - 1

\* artifacts exist just outside the bound on both sides, and the call fails
C4_Witness ==
    /\ pc = "failed"
    /\ error = NoArtifactNearPosition
    /\ artifacts = {ReportedPosition - maxAttempts, ReportedPosition + maxAttempts}

\* the order of the sweep around p: p+0, p-0, p+1, p-1, ...
SweepOrder(p) ==
    [n \in 1..(2 * maxAttempts) |->
        IF n % 2 = 1 THEN p + ((n - 1) \div 2) ELSE p - ((n - 1) \div 2)]

\* C5: the existence checks are issued one after the other in the order
\* P+0, P-0, P+1, P-1, ... (non-decreasing distance, P+i before P-i); the
\* first candidate answered `exists` is the result, and no check follows it.
C5_ProbeOrder ==
    /\ Len(probes) <= 2 * maxAttempts
    /\ \A n \in DOMAIN probes :
          /\ ProbedPosition(n) = SweepOrder(ReportedPosition)[n]
          /\ probes[n].ok =>
                /\ n = Len(probes)
                /\ pc = "done"
                /\ closestBuild = buildOf(probes[n].url)
    /\ pc = "done" => (probes # <<>> /\ probes[Len(probes)].ok)

\* the very last candidate of the sweep, P-4, is the one that exists
C5_Witness ==
    /\ pc = "done"
    /\ Len(probes) = 2 * maxAttempts
    /\ closestBuild = toString(ReportedPosition - (maxAttempts - 1))

\* C10: a feed request answered with a non-success status is the last request
\* of the call: the call fails with FeedUnavailable, and neither that request
\* is repeated nor another page fetched nor any artifact probed.
C10_NoRetry ==
    \A n \in DOMAIN fetched :
        ~fetched[n].ok =>
            /\ n = Len(fetched)
            /\ pc = "failed"
            /\ error = FeedUnavailable
            /\ probes = <<>>
            /\ closestBuild = <<>>

\* the third request of a call, for the second page, is refused
C10_Witness ==
    /\ Len(fetched) = 3
    /\ fetched[3] = [offset |-> numResults, ok |-> FALSE]
    /\ pc = "failed"
    /\ error = FeedUnavailable

(***************************************************************************)
(* Properties of compareVersions (CompareSpec).                            *)
(***************************************************************************)
Sign(x) == IF x < 0 THEN -1 ELSE IF x > 0 THEN 1 ELSE 0
Compared == request.op = "compareVersions" /\ response # <<>>

\* the version without its trailing "0" segments
RECURSIVE StripZeros(_)
StripZeros(v) ==
    IF v # <<>> /\ v[Len(v)] = "0" THEN StripZeros(SubSeq(v, 1, Len(v) - 1))
    ELSE v

\* C13: compareVersions is an ordering: the sign of compare(a, b) is the
\* opposite of the sign of compare(b, a); compare(a, b) <= 0 and
\* compare(b, c) <= 0 imply compare(a, c) <= 0; and two versions that differ
\* only by trailing zero segments compare equal.
C13_Ordering ==
    Compared =>
        /\ Sign(response.ab) = -Sign(response.ba)
        /\ (response.ab <= 0 /\ response.bc <= 0) => response.ac <= 0
        /\ StripZeros(request.a) = StripZeros(request.b) => response.ab = 0

\* "1.2" and "1.2.0.0" compare equal, and both are below "1.10.0"
C13_Witness ==
    /\ Compared
    /\ request.a = V_1_2 /\ request.b = V_1_2_0_0 /\ request.c = V_1_10_0
    /\ response.ab = 0 /\ response.ba = 0
    /\ response.bc < 0 /\ response.ac < 0

\* a segment written in decimal digits
IsNumeral(seg) ==
    /\ segmentChars(seg) # <<>>
    /\ \A i \in DOMAIN segmentChars(seg) :
          \E d \in DOMAIN DigitChars : DigitChars[d] = segmentChars(seg)[i]
\* the integer a segment stands for: 0 when it is not a numeral
SegmentValue(seg) == IF IsNumeral(seg) THEN DigitsValue(segmentChars(seg)) ELSE 0
\* the integer sequence of a version, zero-padded to length n
IntegerSequence(v, n) ==
    [i \in 1..n |-> IF i <= Len(v) THEN SegmentValue(v[i]) ELSE 0]
\* the sign of the lexicographic comparison of two versions
LexSign(a, b) ==
    LET n == Max({Len(a), Len(b)})
        s == IntegerSequence(a, n)
        t == IntegerSequence(b, n)
        differ == {i \in 1..n : s[i] # t[i]}
    IN IF differ = {} THEN 0
       ELSE IF s[Min(differ)] < t[Min(differ)] THEN -1 ELSE 1

TableObtained ==
    /\ request.op = "findClosestVersion"
    /\ response # <<>>
    /\ response.value # TableUnavailable
\* the versions of the table that have a download for the platform
WithDownload(p) ==
    {versionsData[i].version :
        i \in {j \in DOMAIN versionsData : platformKey(p) \in versionsData[j].urls}}
\* those of them that the platform/arch can run: Chrome for mac/arm64 starts
\* at 88.0.4324.150
Offered(p, a) ==
    {v \in WithDownload(p) :
        (p = "mac" /\ a = "arm64") =>
            compareVersions(v, MIN_MAC_ARM64_VERSION) >= 0}
\* the outcome is the smallest version of S at or above the target, the
\* greatest of S when there is none, a failure exactly when S is empty
ClosestIn(S) ==
    LET atOrAbove == {v \in S : compareVersions(v, request.targetVersion) >= 0}
    IN /\ response.threw <=> S = {}
       /\ S # {} =>
             /\ response.value \in S
             /\ IF atOrAbove # {}
                THEN /\ response.value \in atOrAbove
                     /\ \A v \in atOrAbove :
                           compareVersions(response.value, v) <= 0
                ELSE \A v \in S : compareVersions(response.value, v) >= 0

\* C15 as stated: findClosestVersion returns the smallest version at or above
\* the request among the versions with a download for the platform, else the
\* greatest of them, and fails only when there is none.
C15_Original == TableObtained => ClosestIn(WithDownload(request.platform))

\* C15 amended: the same over the versions available for the platform and
\* the architecture, which for mac/arm64 excludes those below 88.0.4324.150.
C15_ClosestVersion ==
    TableObtained => ClosestIn(Offered(request.platform, request.arch))

\* mac/arm64 asks for 87.0, which has a mac download, and gets 88.0.4324.150
C15_Witness ==
    /\ TableObtained
    /\ request.platform = "mac" /\ request.arch = "arm64"
    /\ request.targetVersion = V_87_0
    /\ V_87_0 \in WithDownload("mac")
    /\ ~response.threw
    /\ response.value = MIN_MAC_ARM64_VERSION

(***************************************************************************)
(* Properties of the template browsers (TemplateSpec).                     *)
(***************************************************************************)
Answered == request.op = "getDownloadUrl" /\ response # <<>>

\* C17: Edge, version "120.0.6099.109", platform "windows", arch "x64"
\* resolves to the Edge Windows template with the version in the place of
\* its placeholder; and a call on the template path issues no network call,
\* whatever its arguments.
C17_EdgeTemplate ==
    Answered =>
        /\ (/\ request.browser = "Edge"
            /\ request.version = "120.0.6099.109"
            /\ request.platform = "windows"
            /\ request.arch = "x64") =>
               response =
                 [threw |-> FALSE,
                  value |-> <<"https://msedge.sf.dl.delivery.mp.microsoft.com/filestreamingservice/files/",
                              "120.0.6099.109", "/MicrosoftEdgeSetup.exe">>]
        /\ fetched = <<>> /\ probes = <<>> /\ tableReads = 0

\* the Edge call of the claim has been answered with a URL
C17_Witness ==
    /\ Answered
    /\ request.browser = "Edge"
    /\ request.version = "120.0.6099.109"
    /\ request.platform = "windows"
    /\ request.arch = "x64"
    /\ ~response.threw
    /\ response.value[2] = "120.0.6099.109"

\* the architectures a browser is published for on a platform
SupportedArchs(browser, p) ==
    CASE browser = "Arc" /\ p = "mac" -> {"x64", "arm64"}
      [] browser = "Arc" /\ p = "windows" -> {"x64"}
      [] browser \in {"Edge", "Brave"} /\ p \in {"windows", "mac", "linux"} ->
            {"x64", "arm64"}
      [] OTHER -> {}
\* the platform is supported, and so is the architecture when one is given
SupportedPair(browser, p, a) ==
    /\ SupportedArchs(browser, normalizePlatform(p)) # {}
    /\ a # "" => toLowerCase(a) \in SupportedArchs(browser, normalizePlatform(p))

\* C18: for Edge, Brave and Arc getDownloadUrl returns a URL for every
\* supported (platform, arch), whatever version is given or omitted, and
\* fails exactly when the platform or the architecture is not supported.
C18_FailsOnlyUnsupported ==
    Answered =>
        (response.threw <=>
            ~SupportedPair(request.browser, request.platform, request.arch))

\* C20: an Arc getDownloadUrl call that carries a version proceeds as if none
\* had been given: on mac and windows it returns the fixed latest-installer
\* URL of the platform.
C20_VersionIgnored ==
    (/\ Answered
     /\ request.browser = "Arc"
     /\ request.version # ""
     /\ normalizePlatform(request.platform) \in {"mac", "windows"}) =>
        /\ ~response.threw
        /\ response.value =
              IF normalizePlatform(request.platform) = "mac"
              THEN <<"https://releases.arc.net/release/Arc-latest.dmg">>
              ELSE <<"https://releases.arc.net/windows/ArcInstaller.exe">>

(***************************************************************************)
(* Properties of the binary-search variant (BinarySpec).                   *)
(***************************************************************************)
\* C12: over a newest-first feed the variant that binary-searches the
\* offsets has the net result of the linear scan: it finds a matching
\* release exactly when one is present at a list index below 1000, and
\* reports VersionNotFound otherwise.
C12_VariantEquivalent ==
    (SortedFeed /\ Terminal /\ AllFetchesOk) =>
        IF MatchRuns # {} /\ FirstMatchIndex < maxOffset
        THEN /\ Matched
             /\ \E j \in MatchRuns : ReportedPosition = feed[j].position
        ELSE /\ ~Matched
             /\ error = VersionNotFound

(***************************************************************************)
(* Properties of a Chromium resolution call (ResolveSpec).                 *)
(***************************************************************************)
\* the error kinds of the resolution interface
ResolutionErrors ==
    {UnsupportedPlatform, UnsupportedArch, VersionNotFound,
     NoArtifactNearPosition, FeedUnavailable}
\* feed requests and existence checks issued so far
NetworkCalls == Len(fetched) + Len(probes)
MaxNetworkCalls == 1 + (maxOffset \div numResults) + (2 * maxAttempts)

\* C11: a Chromium resolution call issues a bounded number of network calls
\* and ends with exactly one outcome: one download URL and no error, or no
\* URL and one error among UnsupportedPlatform, UnsupportedArch,
\* VersionNotFound, NoArtifactNearPosition, FeedUnavailable; before it ends
\* it has produced neither.
C11_OneOutcome ==
    /\ NetworkCalls <= MaxNetworkCalls
    /\ pc = "done" => (downloadUrl # <<>> /\ error = "none")
    /\ pc = "failed" => (downloadUrl = <<>> /\ error \in ResolutionErrors)
    /\ ~Terminal => (downloadUrl = <<>> /\ error = "none")

(***************************************************************************)
(* Properties of the latest-version cache (CacheSpec).                     *)
(***************************************************************************)
\* steps of call c
Begins(c) == calls[c].pc = "idle" /\ calls'[c].pc # "idle"
Stores_(c) == calls[c].pc = "fetching" /\ calls'[c].pc = "stored"
Fails(c) == calls[c].pc = "fetching" /\ calls'[c].pc = "threw"
\* the entry a call stored
EntryOf(c) == [version |-> calls[c].result, timestamp |-> calls[c].now]

\* C6: a call made while the key's stored entry is less than CACHE_TTL old
\* (counted from the entry's timestamp) returns the stored version and
\* invokes no upstream fetch; a call made once the TTL has expired, or with
\* no entry, invokes the upstream fetch.
C6_CacheTTL ==
    [][\A c \in CallIds :
        Begins(c) =>
            LET k == calls'[c].key
            IN IF k \in DOMAIN versionCache
                  /\ clock - versionCache[k].timestamp < CACHE_TTL
               THEN /\ calls'[c].pc = "hit"
                    /\ calls'[c].result = versionCache[k].version
                    /\ Upstream' = Upstream
               ELSE /\ calls'[c].pc = "fetching"
                    /\ Upstream' = Upstream + 1]_vars

\* one call stored; a second, one millisecond before the TTL ends, was served
\* from the cache; a third, at the TTL, is fetching: two upstream calls
C6_Witness ==
    \E a, b, c \in CallIds :
        /\ calls[a].pc = "stored"
        /\ calls[b].pc = "hit"
        /\ calls[c].pc = "fetching"
        /\ calls[b].key = calls[a].key /\ calls[c].key = calls[a].key
        /\ calls[b].cached = <<EntryOf(a)>> /\ calls[c].cached = <<EntryOf(a)>>
        /\ calls[b].result = calls[a].result
        /\ calls[b].now - calls[a].now = CACHE_TTL - 1
        /\ calls[c].now - calls[a].now = CACHE_TTL
        /\ Upstream = 2

\* C7: when the fetch of a cache-miss call fails, the call throws, the cache
\* is left as it was (no entry is written), and, no other call having stored
\* an entry for the key since the failed call began, the entry is absent or
\* expired, so that the next call for the key fetches again.
C7_FailureDoesNotPoison ==
    [][\A c \in CallIds :
        Fails(c) =>
            LET k == calls[c].key
            IN /\ versionCache' = versionCache
               /\ cacheGet(versionCache, k) = calls[c].cached =>
                     \/ k \notin DOMAIN versionCache'
                     \/ clock' - versionCache'[k].timestamp >= CACHE_TTL]_vars

\* a call failed, and the next call for the key, made after it, is fetching
C7_Witness ==
    \E a, b \in CallIds :
        /\ calls[a].pc = "threw"
        /\ calls[b].pc = "fetching"
        /\ calls[b].key = calls[a].key
        /\ Settled = 1 /\ calls[b].seen = 1
        /\ calls[a].key \notin DOMAIN versionCache

\* an entry is written only by a call whose fetch succeeded, whole and
\* stamped with the start time of that call
OnlyStoresWrite ==
    \A k \in CacheKeys :
        cacheGet(versionCache', k) # cacheGet(versionCache, k) =>
            \E c \in CallIds :
                /\ Stores_(c)
                /\ calls[c].key = k
                /\ versionCache'[k] = [version |-> calls'[c].result,
                                       timestamp |-> calls[c].now]

\* C8 as stated: entries are written by successful fetches only, and when the
\* refetch triggered by a stale entry fails the key has no entry afterwards.
C8_Original ==
    [][/\ OnlyStoresWrite
       /\ \A c \in CallIds :
             (Fails(c) /\ calls[c].cached # <<>>) =>
                 calls[c].key \notin DOMAIN versionCache']_vars

\* C8 amended: entries are written by successful fetches only, freshness
\* counting from the start of the fetching call; a failed fetch leaves every
\* entry as it was, the stale one in place; no entry is ever removed.
C8_EntryLifecycle ==
    [][/\ OnlyStoresWrite
       /\ \A c \in CallIds : Fails(c) => versionCache' = versionCache
       /\ DOMAIN versionCache \subseteq DOMAIN versionCache']_vars

\* the refetch for a stale entry failed and the stale entry is still there
C8_Witness ==
    \E c \in CallIds :
        /\ calls[c].pc = "threw"
        /\ calls[c].cached # <<>>
        /\ calls[c].now - calls[c].cached[1].timestamp >= CACHE_TTL
        /\ calls[c].key \in DOMAIN versionCache
        /\ versionCache[calls[c].key] = calls[c].cached[1]

\* C9: under every interleaving the cache is a well-formed map (a key has at
\* most one entry, a whole {version, timestamp}), and the entry of a key is
\* the one written by the call whose fetch succeeded last for that key; a
\* failing call changes no entry.
C9_LastWriterWins ==
    /\ DOMAIN versionCache \subseteq CacheKeys
    /\ DOMAIN versionCache = DOMAIN lastWriter
    /\ \A k \in DOMAIN versionCache :
          /\ DOMAIN versionCache[k] = {"version", "timestamp"}
          /\ versionCache[k].timestamp \in 0..clock
          /\ calls[lastWriter[k]].pc = "stored"
          /\ calls[lastWriter[k]].key = k
          /\ versionCache[k] = EntryOf(lastWriter[k])

\* all calls have completed: two overlapping calls stored, the one that began
\* first completing last, and a third call failed
C9_Witness ==
    \E a, b, c \in CallIds :
        /\ calls[a].pc = "stored" /\ calls[b].pc = "stored" /\ calls[c].pc = "threw"
        /\ calls[b].key = calls[a].key /\ calls[c].key = calls[a].key
        /\ calls[a].now < calls[b].now
        /\ calls[a].result # calls[b].result
        /\ lastWriter[calls[a].key] = a
        /\ versionCache[calls[a].key] = EntryOf(a)

(***************************************************************************)
(* Properties of Chrome's getLatestVersion (ChromeLatestSpec).             *)
(***************************************************************************)
\* C16: apart from the TTL cache nothing outlives a call, so a Chrome
\* getLatestVersion call that finds the key's entry expired issues a new
\* network read of the curated table.
C16_TableReadAfresh ==
    [][\A c \in CallIds :
        (/\ Begins(c)
         /\ calls'[c].cached # <<>>
         /\ calls'[c].now - calls'[c].cached[1].timestamp >= CACHE_TTL)
            => tableReads' = tableReads + 1]_vars

(***************************************************************************)
(* Properties of Arc's getLatestVersion (ArcLatestSpec).                   *)
(***************************************************************************)
Returned(c) == calls[c].pc \in {"hit", "stored"}
ArcPlatformOf(c) == normalizePlatform(calls[c].key[1])
NoNetworkCall == fetched = <<>> /\ probes = <<>> /\ tableReads = 0

PageOffsets == {k * numResults : k \in 0..((maxOffset \div numResults) - 1)}

\* C28: within one resolution feed pages are requested only at offsets
\* 0, 50, ..., 950, in increasing order, and no offset is requested twice.
C28_PaginationBounds ==
    /\ \A n \in DOMAIN fetched : fetched[n].offset \in PageOffsets
    /\ \A m, n \in DOMAIN fetched :
          m < n => fetched[m].offset < fetched[n].offset

(***************************************************************************)
(* The URL a Chromium resolution returns (ResolveSpec).                    *)
(***************************************************************************)
\* the existence checks of this call that were answered with success
ConfirmedUrls == {probes[n].url : n \in {m \in DOMAIN probes : probes[m].ok}}

\* C22: whenever Chromium's getDownloadUrl returns a URL, that exact URL
\* (storage platform key, build position and archive name) was answered
\* with success by an existence check of the same call.
C22_ConfirmedArtifact ==
    downloadUrl # <<>> =>
        /\ pc = "done"
        /\ downloadUrl \in ConfirmedUrls
        /\ downloadUrl[Len(downloadUrl) - 1] = closestBuild

\* a linux/arm64 call returned the URL of a build next to the reported one
C22_Witness ==
    /\ pc = "done"
    /\ platform = "linux" /\ arch = "arm64"
    /\ downloadUrl # <<>>
    /\ closestBuild # buildNumber
    /\ Len(probes) > 1

(***************************************************************************)
(* Age of the versions served from the cache (CacheSpec).                  *)
(***************************************************************************)
\* the calls whose fetch produced the entry that call h was served
WritersOf(h) ==
    {w \in CallIds :
        /\ calls[w].pc = "stored"
        /\ calls[w].key = calls[h].key
        /\ <<EntryOf(w)>> = calls[h].cached}

\* C29: every version returned from the cache was obtained by an upstream
\* fetch that started less than CACHE_TTL before the call it is returned
\* to; the timestamp of an entry is the start time of the call that wrote
\* it, and is never later than the moment its value was fetched.
C29_FreshnessBound ==
    /\ \A h \in CallIds :
          calls[h].pc = "hit" =>
              /\ calls[h].result = calls[h].cached[1].version
              /\ \E w \in WritersOf(h) :
                    /\ calls[w].now <= calls[h].now
                    /\ calls[h].now - calls[w].now < CACHE_TTL
    /\ \A k \in DOMAIN versionCache :
          /\ versionCache[k] = EntryOf(lastWriter[k])
          /\ versionCache[k].timestamp <= clock

\* a fetch started at 0 settled just under one TTL later, and a call at
\* that moment was served its value
C29_Witness ==
    \E h, w \in CallIds :
        /\ calls[h].pc = "hit"
        /\ w \in WritersOf(h)
        /\ calls[w].now = 0
        /\ calls[w].seen = 0
        /\ calls[h].now = CACHE_TTL - 1
        /\ \E x \in CallIds : calls[x].pc = "fetching" /\ calls[x].now = 0

(***************************************************************************)
(* Placeholders left in the URL of a template browser (TemplateSpec).      *)
(***************************************************************************)
\* the pieces of the three browsers' templates that are "{{...}}" text
TemplatePlaceholders ==
    {piece \in UNION {{platformsOf(b)[q].downloadUrlTemplate[i] :
                          i \in DOMAIN platformsOf(b)[q].downloadUrlTemplate} :
                       <<b, q>> \in {<<b, q>> \in TemplateBrowsers \X
                                        {"windows", "mac", "linux"} :
                                        q \in DOMAIN platformsOf(b)}} :
        piece \in {"{{version}}", "{{arch}}",
                   "{{arch === \"arm64\" ? \"ARM64\" : \"\"}}",
                   "{{arch === \"x64\" ? \"amd64\" : \"arm64\"}}"}}

\* C30: a URL returned by getDownloadUrl of Edge, Brave or Arc for a
\* supported platform and architecture holds no unresolved "{{...}}"
\* placeholder: each placeholder was replaced by its value, or the call
\* failed with the missing-variable error.
C30_FullySubstituted ==
    (/\ Answered
     /\ SupportedPair(request.browser, request.platform, request.arch)
     /\ ~response.threw) =>
        \A i \in DOMAIN response.value :
            response.value[i] \notin TemplatePlaceholders

(***************************************************************************)
(* install without a version (InstallUrlSpec).                             *)
(***************************************************************************)
\* what the latest-version sources report
LatestVersion == "121.0.6167.85"
\* the download URL of version v of the browser for a platform and arch
UrlOfVersion(browser, p, a, v) ==
    getDownloadUrlOf(browser,
                     IF browser = "Arc" THEN [platform |-> p]
                     ELSE [platform |-> p, arch |-> a, version |-> v])

\* C21: install called with no version and with platform and arch omitted
\* resolves, for every browser, the download URL of the browser's latest
\* version for the platform and architecture of the host, and does not
\* fail.
C21_InstallLatest ==
    (/\ request.op = "install" /\ response # <<>>
     /\ DOMAIN request.params = {}) =>
        /\ ~response.threw
        /\ response = UrlOfVersion(request.browser, request.host.platform,
                                   request.host.arch, LatestVersion)

(***************************************************************************)
(* Properties of the command-line program (CliSpec).                       *)
(***************************************************************************)
Exited == cliPc = "exited"
Silent == flag(argv, "--silent")
Printed(text) == \E i \in DOMAIN console : console[i].text = text

\* C23: the program started with the single positional argument `version`
\* displays the CLI version and exits with status 0.
C23_VersionCommand ==
    (/\ Exited
     /\ positionals(argv) = <<"version">>
     /\ ~flag(argv, "--help")) =>
        /\ exitCode = 0
        /\ Printed("Browser Manager v")

\* C24: started without --silent, the program prints every line it logs,
\* the result logged through logger.info included; started with --silent
\* it prints the logged errors and nothing else.
C24_OutputSwitch ==
    Exited =>
        console = IF Silent
                  THEN SelectSeq(logged, LAMBDA l : l.level = "error")
                  ELSE logged

(***************************************************************************)
(* Properties of install, remove and the history (FsSpec).                 *)
(***************************************************************************)
\* this step completes a call of the operation
Completes(op) == opCount' = opCount + 1 /\ lastOp'.op = op
\* the install path remove and the history look at
DefaultTarget(call) ==
    getInstallPath(call.browser, call.params.platform,
                   PLATFORM_PATHS(call.params.platform))

\* C25: when install with a customBasePath fails, whatever existed before
\* the call still exists after it: a custom base directory that was there
\* before, and everything in it, is not removed.
C25_CleanupOnlyCreated ==
    [][(/\ Completes("install")
        /\ lastOp'.threw
        /\ lastOp'.params.customBasePath # <<>>) =>
           /\ fs \subseteq fs'
           /\ \A t \in DOMAIN infoFiles :
                 t \in DOMAIN infoFiles' /\ infoFiles'[t] = infoFiles[t]]_vars

\* C26: after remove(params) of browser A returned, the installation-info
\* file holds exactly the records it held before that belong to another
\* browser or, when params.version is given, to another version of A.
C26_RemoveKeepsOthers ==
    [][(Completes("remove") /\ ~lastOp'.threw) =>
           readInfo(infoFiles', DefaultTarget(lastOp')) =
               kept(readInfo(infoFiles, DefaultTarget(lastOp')),
                    lastOp'.browser, lastOp'.params.version)]_vars

\* C27: getInstallationHistory called with the params of a successful
\* install with a customBasePath that has just completed returns a list,
\* most recent first, whose first element is the record of that
\* installation, which is also what getLatestInstallation returns.
C27_HistoryFollowsInstall ==
    [][(/\ Completes("getInstallationHistory")
        /\ lastOp.op = "install" /\ ~lastOp.threw
        /\ lastOp.params.customBasePath # <<>>
        /\ lastOp'.browser = lastOp.browser
        /\ lastOp'.params = lastOp.params) =>
           /\ lastOp'.result # <<>>
           /\ getLatestInstallation(lastOp'.result) = lastOp.result
           /\ \A i, j \in DOMAIN lastOp'.result :
                 i < j => lastOp'.result[i].installDate
                              >= lastOp'.result[j].installDate]_vars

====
